---- MODULE Spec2Model ----
(***************************************************************************)
(* The notebook client of iPuppy Notebooks (the React component App of     *)
(* src/unnamed/part_001, the most complete draft): the ordered cell list,  *)
(* the user's cell operations, the Socket.IO event handlers, the debounced *)
(* autosave and the HTTP requests for opening and saving a notebook.       *)
(*                                                                         *)
(* One action is one handler run to completion together with the render   *)
(* it causes and the effect of that render (useEffect[notebookContent],    *)
(* part_001:141-144): the UI event loop runs them as one reaction.         *)
(* A handler reads the state through the closure of the render that        *)
(* created it: the user's handlers belong to the current render, the       *)
(* socket handlers were registered once, at mount (part_001:147-150), and  *)
(* the continuation of an awaited fetch belongs to the render of the call. *)
(***************************************************************************)
EXTENDS Integers, Sequences, FiniteSets, TLC

(* ------------------------------ bounds -------------------------------- *)
\* longest cell list the inputs build (an insertion beyond it is not drawn)
MaxCells == 3
\* longest outputs list a streamed append builds
MaxOutputs == 2
\* HTTP requests in flight at one time
MaxPending == 1
\* kernels the user starts in the raw-WebSocket draft
MaxKernels == 2
\* WebSocket objects the raw-WebSocket draft creates
MaxSockets == 3
\* completion requests the editor makes
MaxCompletions == 2
\* DELETE requests in flight at one time, next to the other requests
MaxDeletes == 1
\* cells of a notebook in the draft without auto-save
MaxDraftCells == 2
\* the clock's step, in ms
TickMs == 100

(* --------------------------- program constants ------------------------ *)
\* setTimeout(..., 200) of scheduleAutoSave
AutoSaveDelay == 200

(* ------------------------- JavaScript values -------------------------- *)
\* A string is a sequence of one-character strings; '' is <<>>.
Whitespace == {" ", "\n"}

\* the value of a missing array element or variable, an array hole, JSON null
Undefined == [undefined |-> TRUE]
Hole == [hole |-> TRUE]
JNull == [null |-> TRUE]

\* currentNotebook === null, autoSaveTimeoutRef.current === null
Null == "null"
NoTimer == [left |-> -1, name |-> Null]

Min(a, b) == IF a < b THEN a ELSE b
Max(a, b) == IF a > b THEN a ELSE b

\* a value that is an object (a cell, whole or partial), so truthy in `if (cell)`
IsObject(c) == DOMAIN c \cap {"undefined", "hole", "null"} = {}

\* Array.prototype.join('') of an array of strings
RECURSIVE Join(_)
Join(source) ==
  IF source = <<>> THEN <<>> ELSE Head(source) \o Join(Tail(source))

RECURSIVE TrimStart(_)
TrimStart(s) ==
  IF s # <<>> /\ Head(s) \in Whitespace THEN TrimStart(Tail(s)) ELSE s

RECURSIVE TrimEnd(_)
TrimEnd(s) ==
  IF s # <<>> /\ s[Len(s)] \in Whitespace
  THEN TrimEnd(SubSeq(s, 1, Len(s) - 1))
  ELSE s

\* a trim that strips nothing
TrimNothing(s) == s

\* String.prototype.trim
Trim(s) == TrimEnd(TrimStart(s))

\* arr[i], i a JavaScript index (from 0)
At(arr, i) ==
  IF i >= 0 /\ i < Len(arr) /\ arr[i + 1] # Hole THEN arr[i + 1] ELSE Undefined

\* [...arr]: the iterator reads a hole as undefined
Spread(arr) == [k \in 1..Len(arr) |-> IF arr[k] = Hole THEN Undefined ELSE arr[k]]

\* arr[i] = v: a negative index sets a property, not an element; an index
\* past the end leaves holes
SetAt(arr, i, v) ==
  IF i < 0 THEN arr
  ELSE IF i < Len(arr) THEN [arr EXCEPT ![i + 1] = v]
  ELSE arr \o [k \in 1..(i - Len(arr)) |-> Hole] \o <<v>>

\* the start index Array.prototype.splice works from
SpliceStart(arr, start) ==
  IF start < 0 THEN Max(Len(arr) + start, 0) ELSE Min(start, Len(arr))

\* what arr.splice(start, 1) removes (a list of at most one element) ...
SpliceRemoved(arr, start) ==
  LET s == SpliceStart(arr, start)
  IN IF s < Len(arr) THEN <<arr[s + 1]>> ELSE <<>>

\* ... and what it leaves
SpliceRest(arr, start) ==
  LET s == SpliceStart(arr, start)
  IN IF s < Len(arr)
     THEN SubSeq(arr, 1, s) \o SubSeq(arr, s + 2, Len(arr))
     ELSE arr

\* arr.splice(start, 0, v)
SpliceInsert(arr, start, v) ==
  LET s == SpliceStart(arr, start)
  IN SubSeq(arr, 1, s) \o <<v>> \o SubSeq(arr, s + 1, Len(arr))

\* arr.filter((_, i) => i !== index): filter skips holes
RECURSIVE FilterFrom(_, _, _)
FilterFrom(arr, k, index) ==
  IF k > Len(arr) THEN <<>>
  ELSE (IF k - 1 # index /\ arr[k] # Hole THEN <<arr[k]>> ELSE <<>>)
       \o FilterFrom(arr, k + 1, index)

\* a filter whose predicate keeps every element
FilterKeepsAll(arr, index) == arr

FilterIndex(arr, index) == FilterFrom(arr, 1, index)

\* { ...c, ...patch }: spreading undefined or null adds nothing
ObjSpread(c, patch) == IF IsObject(c) THEN patch @@ c ELSE patch

\* JSON.parse(JSON.stringify(cells)): holes and undefined become null
ToJSON(cells) ==
  [k \in 1..Len(cells) |-> IF IsObject(cells[k]) THEN cells[k] ELSE JNull]

(* ------------------------------- inputs ------------------------------- *)
\* notebook names the server knows
Names == {"a.py", "b.py"}
\* texts typed into a cell or sent as content
Texts == {<<>>, <<" ">>, <<"x">>}
\* output chunks the kernel streams; NoOutput is a payload without `output`
Chunks == {"o1", "o2"}
NoOutput == ""
\* request ids of read requests; "" is a missing (falsy) request_id
RequestIds == {"r1", ""}

\* a payload field: a number, or a value that is not one
Num(i) == [t |-> "number", v |-> i]
NotNum == [t |-> "undefined", v |-> 0]
IsNumber(x) == x.t = "number"
\* cell indices a payload carries: every position, one before, one past the end
Indices == {Num(i) : i \in -1..MaxCells}
\* cell indices of well-formed payloads
ValidIndices == {Num(i) : i \in 0..(MaxCells - 1)}

\* the cell addCell appends (part_001:729)
NewCell == [cell_type |-> "code", source |-> << <<>> >>, outputs |-> <<>>]

cellA == [cell_type |-> "code", source |-> << <<"x">> >>, outputs |-> <<>>]
cellB == [cell_type |-> "markdown", source |-> << <<"x">>, <<" ">> >>, outputs |-> <<>>]
cellC == [cell_type |-> "code", source |-> << <<" ">>, <<"\n">> >>, outputs |-> <<"o1">>]

(* ------------------------------- state -------------------------------- *)
VARIABLES
  mounted,               \* the component is mounted (no render has thrown)
  notebooks,             \* useState notebooks
  currentNotebook,       \* useState currentNotebook
  notebookContent,       \* useState notebookContent
  notebookContentRef,    \* notebookContentRef.current
  kernelStatus,          \* useState kernelStatus
  alert,                 \* useState alert
  executingCells,        \* useState executingCells
  editingMarkdownCells,  \* useState editingMarkdownCells
  autoSaveEnabled,       \* useState autoSaveEnabled
  autoSaveTimeoutRef,    \* autoSaveTimeoutRef.current: the pending timer, with
                         \* the time left and the currentNotebook of its closure
  socketState,           \* the Socket.IO instance: connecting, connected, ...
  socketRef,             \* socketRef.current is the instance (TRUE) or null
  pending,               \* fetches awaiting their response, with their closures
  store,                 \* the server's notebooks: name -> cells, as JSON
  emitted,               \* what the last step emitted on the socket
  http,                  \* the HTTP requests the last step issued
  last,                  \* the last operation and its arguments
  execInFlight,          \* indices with a run request sent and not yet settled
  savedMem,              \* per name, notebookContent when the stored save was made
  kernelId,              \* useState kernelId (part_003)
  websocket,             \* useState websocket (part_003): a WebSocket or null
  cleanupWebsocket,      \* `websocket` in the closure of the pending cleanup of
                         \* useEffect[kernelId] (part_003)
  webSockets,            \* the WebSocket objects created so far, in order, each
                         \* with the closure of the connectWebSocket that made it
  reconnectTimers,       \* pending setTimeout(() => connectWebSocket(), 2000)
  serverKernels,         \* the kernels the server has started: alive or not
  completionRequests     \* the completion requests sent so far and their states

progVars ==
  <<mounted, notebooks, currentNotebook, notebookContent, notebookContentRef,
    kernelStatus, alert, executingCells, editingMarkdownCells, autoSaveEnabled,
    autoSaveTimeoutRef, socketState, socketRef, pending, store>>

vars ==
  <<mounted, notebooks, currentNotebook, notebookContent, notebookContentRef,
    kernelStatus, alert, executingCells, editingMarkdownCells, autoSaveEnabled,
    autoSaveTimeoutRef, socketState, socketRef, pending, store,
    emitted, http, last, execInFlight, savedMem,
    kernelId, websocket, cleanupWebsocket, webSockets, reconnectTimers,
    serverKernels, completionRequests>>

\* the state of the raw-WebSocket draft (part_003) that part_001 does not have
rawVars ==
  <<kernelId, websocket, cleanupWebsocket, webSockets, reconnectTimers,
    serverKernels>>

NoAlert == [severity |-> "none", message |-> ""]
\* a showAlert that shows every notification as information
AlertAsInfo(message, severity) == [severity |-> "info", message |-> message]
Alert(message, severity) == [severity |-> severity, message |-> message]

\* a notebook the server does not have; a name with no save stored
NoNotebook == [exists |-> FALSE, cells |-> <<>>]
Stored(cells) == [exists |-> TRUE, cells |-> cells]

\* the state of the first render, which the socket handlers close over
MountEnabled == TRUE
MountNotebook == Null

Op(name, arg) == [op |-> name, arg |-> arg]
NoArg == [none |-> TRUE]

(* ----------------------- render, effect, autosave ---------------------- *)
\* scheduleAutoSave (part_001:712-725) in a closure that holds `enabled` and
\* `name`: the timer it leaves in autoSaveTimeoutRef.current
\* a scheduler that leaves a pending timer running instead of restarting it
scheduleKeepsPending(enabled, name, timer) ==
  IF ~enabled \/ name = Null \/ timer.left >= 0
  THEN timer
  ELSE [left |-> AutoSaveDelay, name |-> name]

scheduleAutoSave(enabled, name, timer) ==
  IF ~enabled \/ name = Null
  THEN timer
  ELSE [left |-> AutoSaveDelay, name |-> name]

\* NotebookContainer renders the cells of an open notebook: map skips holes,
\* NotebookCell reads cell.cell_type and cell.source.join('')
Renders(content, name) ==
  \/ name = Null
  \/ \A k \in 1..Len(content) :
       \/ content[k] = Hole
       \/ IsObject(content[k]) /\ "source" \in DOMAIN content[k]

\* The render after setNotebookContent(content) and the effect
\* useEffect[notebookContent] of that render, whose closure holds `name` and
\* `enabled`; `timer` is what the handler left in autoSaveTimeoutRef. A render
\* that throws unmounts the component, which runs the cleanup of the mount
\* effect (part_001:154-164).
Commit(content, name, enabled, timer) ==
  /\ notebookContent' = content
  /\ IF Renders(content, name)
     THEN /\ mounted' = TRUE
          /\ notebookContentRef' = content
          /\ autoSaveTimeoutRef' = scheduleAutoSave(enabled, name, timer)
          /\ UNCHANGED <<socketState, socketRef>>
     ELSE /\ mounted' = FALSE
          /\ notebookContentRef' = notebookContentRef
          /\ autoSaveTimeoutRef' = NoTimer
          /\ socketState' = (IF socketRef THEN "closed" ELSE socketState)
          /\ socketRef' = FALSE

\* a step that does not call setNotebookContent
NoCommit ==
  UNCHANGED <<mounted, notebookContent, notebookContentRef, autoSaveTimeoutRef,
              socketState, socketRef>>

\* what a step did: the operation, what it emitted, the requests it issued
Step(op, arg, em, ht) ==
  /\ last' = Op(op, arg)
  /\ emitted' = em
  /\ http' = ht

\* a step of the App of part_001, which has no raw WebSocket and whose
\* handlers send no completion request
Observe(op, arg, em, ht) ==
  /\ Step(op, arg, em, ht)
  /\ UNCHANGED rawVars
  /\ UNCHANGED completionRequests

\* index is the index of a cell the open notebook shows
Shown(index) ==
  /\ mounted
  /\ currentNotebook # Null
  /\ index \in 0..(Len(notebookContent) - 1)
  /\ notebookContent[index + 1] # Hole

(* --------------------------- cell operations -------------------------- *)
\* the updater of addCell
AddCellContent(prev) == Spread(prev) \o <<NewCell>>

addCell ==
  /\ mounted /\ currentNotebook # Null
  /\ Len(notebookContent) < MaxCells
  /\ Commit(AddCellContent(notebookContent), currentNotebook, autoSaveEnabled,
            autoSaveTimeoutRef)
  /\ Observe("addCell", NoArg, <<>>, <<>>)
  /\ UNCHANGED <<notebooks, currentNotebook, kernelStatus, alert, executingCells,
                 editingMarkdownCells, autoSaveEnabled, pending, store,
                 execInFlight, savedMem>>

\* the updater of updateCell: next[index] = { ...next[index], ...patch }
\* an updateCell that drops the patch
UpdateCellDropsPatch(prev, index, patch) == Spread(prev)

\* an updateCell that patches the first cell whatever the index
UpdateCellFirst(prev, index, patch) ==
  SetAt(Spread(prev), 0, ObjSpread(At(prev, 0), patch))

\* an updateCell that puts the patch in place of the cell
UpdateCellReplaces(prev, index, patch) == SetAt(Spread(prev), index, patch)

UpdateCellContent(prev, index, patch) ==
  SetAt(Spread(prev), index, ObjSpread(At(prev, index), patch))

\* the patches the cell editor sends: a new source text, a new type
UserPatches ==
  {[source |-> <<t>>] : t \in Texts} \cup {[cell_type |-> ty] : ty \in {"code", "markdown"}}

updateCell(index, patch) ==
  /\ Shown(index)
  /\ Commit(UpdateCellContent(notebookContent, index, patch), currentNotebook,
            autoSaveEnabled,
            scheduleAutoSave(autoSaveEnabled, currentNotebook, autoSaveTimeoutRef))
  /\ Observe("updateCell", [index |-> index, patch |-> patch], <<>>, <<>>)
  /\ UNCHANGED <<notebooks, currentNotebook, kernelStatus, alert, executingCells,
                 editingMarkdownCells, autoSaveEnabled, pending, store,
                 execInFlight, savedMem>>

\* the markdown cell's edit toggle (click, blur, Shift-Enter)
handleToggleMarkdownEdit(index) ==
  /\ Shown(index)
  /\ IsObject(notebookContent[index + 1])
  /\ "cell_type" \in DOMAIN notebookContent[index + 1]
  /\ notebookContent[index + 1].cell_type = "markdown"
  /\ editingMarkdownCells' =
       (IF index \in editingMarkdownCells THEN editingMarkdownCells \ {index}
        ELSE editingMarkdownCells \cup {index})
  /\ NoCommit
  /\ Observe("toggleMarkdownEdit", [index |-> index], <<>>, <<>>)
  /\ UNCHANGED <<notebooks, currentNotebook, kernelStatus, alert, executingCells,
                 autoSaveEnabled, pending, store, execInFlight, savedMem>>

\* a delete that also takes the index out of the set of cells being edited
handleDeleteCellDropsFlag(index) ==
  /\ Shown(index)
  /\ Commit(FilterIndex(notebookContent, index), currentNotebook, autoSaveEnabled,
            autoSaveTimeoutRef)
  /\ editingMarkdownCells' = editingMarkdownCells \ {index}
  /\ Observe("deleteCell", [index |-> index], <<>>, <<>>)
  /\ UNCHANGED <<notebooks, currentNotebook, kernelStatus, alert, executingCells,
                 autoSaveEnabled, pending, store, execInFlight, savedMem>>

handleDeleteCell(index) ==
  /\ Shown(index)
  /\ Commit(FilterIndex(notebookContent, index), currentNotebook, autoSaveEnabled,
            autoSaveTimeoutRef)
  /\ Observe("deleteCell", [index |-> index], <<>>, <<>>)
  /\ UNCHANGED <<notebooks, currentNotebook, kernelStatus, alert, executingCells,
                 editingMarkdownCells, autoSaveEnabled, pending, store,
                 execInFlight, savedMem>>

\* a swap that writes only one of the two positions
SwapFirstOnly(prev, a, b) == SetAt(Spread(prev), a, At(prev, b))

\* [c[a], c[b]] = [c[b], c[a]] on the copy c of prev
SwapCells(prev, a, b) ==
  SetAt(SetAt(Spread(prev), a, At(prev, b)), b, At(prev, a))

handleMoveCellUp(index) ==
  /\ Shown(index)
  /\ IF index > 0
     THEN Commit(SwapCells(notebookContent, index - 1, index), currentNotebook,
                 autoSaveEnabled, autoSaveTimeoutRef)
     ELSE NoCommit
  /\ Observe("moveUp", [index |-> index], <<>>, <<>>)
  /\ UNCHANGED <<notebooks, currentNotebook, kernelStatus, alert, executingCells,
                 editingMarkdownCells, autoSaveEnabled, pending, store,
                 execInFlight, savedMem>>

handleMoveCellDown(index) ==
  /\ Shown(index)
  /\ IF index < Len(notebookContent) - 1
     THEN Commit(SwapCells(notebookContent, index, index + 1), currentNotebook,
                 autoSaveEnabled, autoSaveTimeoutRef)
     ELSE NoCommit
  /\ Observe("moveDown", [index |-> index], <<>>, <<>>)
  /\ UNCHANGED <<notebooks, currentNotebook, kernelStatus, alert, executingCells,
                 editingMarkdownCells, autoSaveEnabled, pending, store,
                 execInFlight, savedMem>>

(* ------------------------------ execution ----------------------------- *)
\* the source text is empty or whitespace-only: !cell.source.join('').trim()
IsBlank(source) == Trim(Join(source)) = <<>>

\* executeCell (part_001:742-800), called from the cell at `index`
executeCell(index) ==
  /\ Shown(index)
  /\ LET cell == notebookContent[index + 1]
         code == Join(cell.source)
         live == socketRef /\ socketState = "connected"
     IN
     IF ~("cell_type" \in DOMAIN cell /\ cell.cell_type = "code")
     THEN \* not a code cell: return
          /\ NoCommit
          /\ Observe("executeCell", [index |-> index], <<>>, <<>>)
          /\ UNCHANGED <<alert, executingCells, autoSaveEnabled, pending,
                         execInFlight>>
     ELSE IF IsBlank(cell.source)
     THEN \* showAlert('Cell is empty', 'warning'); return
          /\ alert' = Alert("Cell is empty", "warning")
          /\ NoCommit
          /\ Observe("executeCell", [index |-> index], <<>>, <<>>)
          /\ UNCHANGED <<executingCells, autoSaveEnabled, pending, execInFlight>>
     ELSE IF ~live
     THEN \* HTTP fallback: POST /api/v1/execute, then await
          LET req == [kind |-> "execute", index |-> index, code |-> code,
                      enabled |-> autoSaveEnabled, name |-> currentNotebook]
          IN /\ Cardinality(pending) < MaxPending
             /\ alert' = Alert("Socket.IO not connected. Trying to execute via HTTP...",
                               "warning")
             /\ pending' = pending \cup {req}
             /\ NoCommit
             /\ Observe("executeCell", [index |-> index], <<>>, <<req>>)
             /\ UNCHANGED <<executingCells, autoSaveEnabled, execInFlight>>
     ELSE \* over the socket: the closure's updateCell and scheduleAutoSave
          \* still see autoSaveEnabled as it was in this render
          /\ autoSaveEnabled' = FALSE
          /\ executingCells' = executingCells \cup {index}
          /\ execInFlight' = execInFlight \cup {index}
          /\ Commit(UpdateCellContent(notebookContent, index, [outputs |-> <<>>]),
                    currentNotebook, FALSE,
                    scheduleAutoSave(autoSaveEnabled, currentNotebook,
                                     autoSaveTimeoutRef))
          /\ Observe("executeCell", [index |-> index],
                     <<[event |-> "execute_code", cell_index |-> index,
                        code |-> code]>>, <<>>)
          /\ UNCHANGED <<alert, pending>>
  /\ UNCHANGED <<notebooks, currentNotebook, kernelStatus, editingMarkdownCells,
                 store, savedMem>>

\* the response to the HTTP fallback: the continuation runs in the closure of
\* the render that called executeCell
executeHttpDone(req, ok, outputs) ==
  /\ req \in pending /\ req.kind = "execute"
  /\ pending' = pending \ {req}
  /\ IF ~mounted
     THEN \* the state setters of an unmounted component do nothing, the
          \* scheduleAutoSave() of updateCell still runs in its closure
          /\ autoSaveTimeoutRef' =
               (IF ok THEN scheduleAutoSave(req.enabled, req.name, autoSaveTimeoutRef)
                ELSE autoSaveTimeoutRef)
          /\ UNCHANGED <<alert, mounted, notebookContent, notebookContentRef,
                         socketState, socketRef>>
     ELSE IF ok
     THEN /\ alert' = Alert("Executed via HTTP fallback", "info")
          /\ Commit(UpdateCellContent(notebookContent, req.index,
                                      [outputs |-> outputs]),
                    currentNotebook, autoSaveEnabled,
                    scheduleAutoSave(req.enabled, req.name, autoSaveTimeoutRef))
     ELSE /\ alert' = Alert("HTTP execution also failed", "error")
          /\ NoCommit
  /\ Observe("executeHttpDone",
             [index |-> req.index, ok |-> ok, outputs |-> outputs], <<>>, <<>>)
  /\ UNCHANGED <<notebooks, currentNotebook, kernelStatus, executingCells,
                 editingMarkdownCells, autoSaveEnabled, store, execInFlight,
                 savedMem>>

(* ---------------------------- socket events --------------------------- *)
\* the server's events reach the handlers of a connected socket
Receiving == mounted /\ socketState = "connected"

\* cell.outputs = [] on the cell at cellIndex, if there is one
ClearOutputs(prev, cellIndex) ==
  LET c == Spread(prev)
      cell == At(c, cellIndex)
  IN IF IsObject(cell) THEN SetAt(c, cellIndex, [outputs |-> <<>>] @@ cell) ELSE c

\* an append that puts the chunk in front
PrependOutput(prev, cellIndex, output, append) ==
  LET c == Spread(prev)
      cell == At(c, cellIndex)
      old == IF "outputs" \in DOMAIN cell THEN cell.outputs ELSE <<>>
  IN IF IsObject(cell)
     THEN SetAt(c, cellIndex,
                [outputs |-> IF append THEN <<output>> \o old ELSE <<output>>] @@ cell)
     ELSE c

\* cell.outputs = append ? [...(cell.outputs || []), output] : [output]
ApplyOutput(prev, cellIndex, output, append) ==
  LET c == Spread(prev)
      cell == At(c, cellIndex)
      old == IF "outputs" \in DOMAIN cell THEN cell.outputs ELSE <<>>
  IN IF IsObject(cell)
     THEN SetAt(c, cellIndex,
                [outputs |-> IF append THEN old \o <<output>> ELSE <<output>>] @@ cell)
     ELSE c

\* the outputs list of the cell at index i, [] if it has none
OutputsAt(content, i) ==
  LET cell == At(content, i)
  IN IF IsObject(cell) /\ "outputs" \in DOMAIN cell THEN cell.outputs ELSE <<>>

\* handleSocketMessage (part_001:284-331) for an execution_result payload
\* a delete that empties the set
DeleteEmpties(prev, cellIndex) == {}

\* the updater of setExecutingCells on 'completed' or 'error':
\* newSet = new Set(prev); newSet.delete(cellIndex)
DeleteFromSet(prev, cellIndex) == prev \ {cellIndex}

handleSocketMessage(data) ==
  /\ Receiving
  /\ data.append /\ data.output # NoOutput /\ IsNumber(data.cell_index)
       => Len(OutputsAt(notebookContent, data.cell_index.v)) < MaxOutputs
  /\ IF ~IsNumber(data.cell_index)
     THEN /\ NoCommit
          /\ UNCHANGED <<executingCells, autoSaveEnabled, execInFlight>>
     ELSE LET i == data.cell_index.v
              running == data.status = "running"
              settled == data.status \in {"completed", "error"}
              c1 == IF running THEN ClearOutputs(notebookContent, i)
                    ELSE notebookContent
              c2 == IF data.output # NoOutput
                    THEN ApplyOutput(c1, i, data.output, data.append)
                    ELSE c1
          IN /\ executingCells' =
                  (IF running THEN executingCells \cup {i}
                   ELSE IF settled THEN DeleteFromSet(executingCells, i)
                   ELSE executingCells)
             /\ autoSaveEnabled' = (IF settled THEN TRUE ELSE autoSaveEnabled)
             /\ execInFlight' = (IF settled THEN execInFlight \ {i} ELSE execInFlight)
             /\ IF running \/ data.output # NoOutput
                THEN \* the handler's own scheduleAutoSave() runs in the mount closure
                     Commit(c2, currentNotebook, autoSaveEnabled',
                            IF data.output # NoOutput
                            THEN scheduleAutoSave(MountEnabled, MountNotebook,
                                                  autoSaveTimeoutRef)
                            ELSE autoSaveTimeoutRef)
                ELSE NoCommit
  /\ Observe("execution_result", data, <<>>, <<>>)
  /\ UNCHANGED <<notebooks, currentNotebook, kernelStatus, alert,
                 editingMarkdownCells, pending, store, savedMem>>

\* a move that exchanges the two positions
MoveAsSwap(prev, cell_index, new_index) == SwapCells(prev, cell_index, new_index)

\* the updater of handleMoveCellMessage: two splices on a copy
MoveCellContent(prev, cell_index, new_index) ==
  LET c == Spread(prev)
      removed == SpliceRemoved(c, cell_index)
      movedCell == IF removed = <<>> THEN Undefined ELSE removed[1]
  IN SpliceInsert(SpliceRest(c, cell_index), new_index, movedCell)

handleMoveCellMessage(data) ==
  /\ Receiving
  /\ IF IsNumber(data.cell_index) /\ IsNumber(data.new_index)
     THEN Commit(MoveCellContent(notebookContent, data.cell_index.v, data.new_index.v),
                 currentNotebook, autoSaveEnabled, autoSaveTimeoutRef)
     ELSE NoCommit
  /\ Observe("move_cell", data, <<>>, <<>>)
  /\ UNCHANGED <<notebooks, currentNotebook, kernelStatus, alert, executingCells,
                 editingMarkdownCells, autoSaveEnabled, pending, store,
                 execInFlight, savedMem>>

\* an add_cell that always puts the cell at the end
AddCellMessageAppends(prev, cell_index, cell_type, content) ==
  Spread(prev) \o <<[cell_type |-> IF cell_type = "" THEN "code" ELSE cell_type,
                     source |-> <<content>>, outputs |-> <<>>]>>

\* the updater of handleAddCellMessage: cell_type || 'code', [content || '']
AddCellMessageContent(prev, cell_index, cell_type, content) ==
  SpliceInsert(Spread(prev), cell_index,
               [cell_type |-> IF cell_type = "" THEN "code" ELSE cell_type,
                source |-> <<content>>, outputs |-> <<>>])

handleAddCellMessage(data) ==
  /\ Receiving
  /\ Len(notebookContent) < MaxCells
  /\ IF IsNumber(data.cell_index)
     THEN Commit(AddCellMessageContent(notebookContent, data.cell_index.v,
                                       data.cell_type, data.content),
                 currentNotebook, autoSaveEnabled, autoSaveTimeoutRef)
     ELSE NoCommit
  /\ Observe("add_cell", data, <<>>, <<>>)
  /\ UNCHANGED <<notebooks, currentNotebook, kernelStatus, alert, executingCells,
                 editingMarkdownCells, autoSaveEnabled, pending, store,
                 execInFlight, savedMem>>

\* a delete_cell handler that filters the list of the render it was made in,
\* the empty list of the mount
handleDeleteCellMessageStale(data) ==
  /\ Receiving
  /\ IF IsNumber(data.cell_index)
     THEN Commit(FilterIndex(<<>>, data.cell_index.v), currentNotebook,
                 autoSaveEnabled, autoSaveTimeoutRef)
     ELSE NoCommit
  /\ Observe("delete_cell", data, <<>>, <<>>)
  /\ UNCHANGED <<notebooks, currentNotebook, kernelStatus, alert, executingCells,
                 editingMarkdownCells, autoSaveEnabled, pending, store,
                 execInFlight, savedMem>>

handleDeleteCellMessage(data) ==
  /\ Receiving
  /\ IF IsNumber(data.cell_index)
     THEN Commit(FilterIndex(notebookContent, data.cell_index.v), currentNotebook,
                 autoSaveEnabled, autoSaveTimeoutRef)
     ELSE NoCommit
  /\ Observe("delete_cell", data, <<>>, <<>>)
  /\ UNCHANGED <<notebooks, currentNotebook, kernelStatus, alert, executingCells,
                 editingMarkdownCells, autoSaveEnabled, pending, store,
                 execInFlight, savedMem>>

\* handleAlterCellContentMessage: updateCell of the mount closure, whose
\* scheduleAutoSave sees currentNotebook === null
handleAlterCellContentMessage(data) ==
  /\ Receiving
  /\ IsNumber(data.cell_index) => data.cell_index.v < MaxCells
  /\ IF IsNumber(data.cell_index) /\ data.content.t = "string"
     THEN Commit(UpdateCellContent(notebookContent, data.cell_index.v,
                                   [source |-> <<data.content.v>>]),
                 currentNotebook, autoSaveEnabled,
                 scheduleAutoSave(MountEnabled, MountNotebook, autoSaveTimeoutRef))
     ELSE NoCommit
  /\ Observe("alter_cell_content", data, <<>>, <<>>)
  /\ UNCHANGED <<notebooks, currentNotebook, kernelStatus, alert, executingCells,
                 editingMarkdownCells, autoSaveEnabled, pending, store,
                 execInFlight, savedMem>>

handleSwapCellTypeMessage(data) ==
  /\ Receiving
  /\ IsNumber(data.cell_index) => data.cell_index.v < MaxCells
  /\ IF IsNumber(data.cell_index) /\ data.new_type \in {"code", "markdown"}
     THEN /\ editingMarkdownCells' =
               (IF data.new_type = "markdown"
                THEN editingMarkdownCells \ {data.cell_index.v}
                ELSE editingMarkdownCells)
          /\ Commit(UpdateCellContent(notebookContent, data.cell_index.v,
                                      [cell_type |-> data.new_type]),
                    currentNotebook, autoSaveEnabled,
                    scheduleAutoSave(MountEnabled, MountNotebook,
                                     autoSaveTimeoutRef))
     ELSE /\ NoCommit
          /\ UNCHANGED editingMarkdownCells
  /\ Observe("swap_cell_type", data, <<>>, <<>>)
  /\ UNCHANGED <<notebooks, currentNotebook, kernelStatus, alert, executingCells,
                 autoSaveEnabled, pending, store, execInFlight, savedMem>>

(* ---------------------------- read requests --------------------------- *)
\* `if (typeof cell_index === 'number' && request_id)`
ReadGuard(data) == IsNumber(data.cell_index) /\ data.request_id # ""

\* what handleReadCellInputRequest emits: a TypeError (cell.source of a cell
\* without source) ends the handler before it emits
ReadCellInputEmits(ref, data) ==
  IF ~ReadGuard(data) THEN <<>>
  ELSE LET cell == At(ref, data.cell_index.v)
       IN IF ~IsObject(cell)
          THEN <<[event |-> "read_cell_input_response",
                  request_id |-> data.request_id, content |-> <<>>]>>
          ELSE IF "source" \notin DOMAIN cell THEN <<>>
          ELSE <<[event |-> "read_cell_input_response",
                  request_id |-> data.request_id, content |-> Join(cell.source)]>>

\* a handler that does not answer for a cell that is not there
ReadCellOutputOmitsMissing(ref, data) ==
  IF ~ReadGuard(data) \/ ~IsObject(At(ref, data.cell_index.v)) THEN <<>>
  ELSE <<[event |-> "read_cell_output_response", request_id |-> data.request_id,
          outputs |-> OutputsAt(ref, data.cell_index.v)]>>

\* what handleReadCellOutputRequest emits
ReadCellOutputEmits(ref, data) ==
  IF ~ReadGuard(data) THEN <<>>
  ELSE <<[event |-> "read_cell_output_response", request_id |-> data.request_id,
          outputs |-> OutputsAt(ref, data.cell_index.v)]>>

\* one entry of the list handleListAllCellsRequest builds
ListEntry(cell, index) ==
  [index |-> index,
   outputs |-> IF "outputs" \in DOMAIN cell THEN cell.outputs ELSE <<>>]
  @@ [f \in DOMAIN cell \cap {"cell_type", "source"} |-> cell[f]]

\* what handleListAllCellsRequest emits: map skips holes, and reading
\* cell.cell_type of undefined or null throws
ListAllCellsEmits(ref, data) ==
  IF data.request_id = "" THEN <<>>
  ELSE IF \E k \in 1..Len(ref) : ref[k] # Hole /\ ~IsObject(ref[k]) THEN <<>>
  ELSE <<[event |-> "list_all_cells_response", request_id |-> data.request_id,
          cells |-> [k \in 1..Len(ref) |->
                       IF ref[k] = Hole THEN Hole ELSE ListEntry(ref[k], k - 1)]]>>

handleReadCellInputRequest(data) ==
  /\ Receiving
  /\ Observe("read_cell_input_request", data,
             ReadCellInputEmits(notebookContentRef, data), <<>>)
  /\ UNCHANGED progVars
  /\ UNCHANGED <<execInFlight, savedMem>>

handleReadCellOutputRequest(data) ==
  /\ Receiving
  /\ Observe("read_cell_output_request", data,
             ReadCellOutputEmits(notebookContentRef, data), <<>>)
  /\ UNCHANGED progVars
  /\ UNCHANGED <<execInFlight, savedMem>>

handleListAllCellsRequest(data) ==
  /\ Receiving
  /\ Observe("list_all_cells_request", data,
             ListAllCellsEmits(notebookContentRef, data), <<>>)
  /\ UNCHANGED progVars
  /\ UNCHANGED <<execInFlight, savedMem>>

(* ----------------------------- connection ----------------------------- *)
\* on('connect'): also after the managed client reconnects by itself
socketConnect ==
  /\ socketState \in {"connecting", "disconnected"}
  /\ socketState' = "connected"
  /\ kernelStatus' = (IF mounted THEN "running" ELSE kernelStatus)
  /\ alert' = (IF mounted THEN Alert("Connected to global kernel", "info")
               ELSE alert)
  /\ Observe("connect", NoArg, <<>>, <<>>)
  /\ UNCHANGED <<mounted, notebooks, currentNotebook, notebookContent,
                 notebookContentRef, executingCells, editingMarkdownCells,
                 autoSaveEnabled, autoSaveTimeoutRef, socketRef, pending, store,
                 execInFlight, savedMem>>

\* on('disconnect')
socketDisconnect ==
  /\ mounted
  /\ socketState = "connected"
  /\ socketState' = "disconnected"
  /\ socketRef' = FALSE
  /\ kernelStatus' = "idle"
  /\ alert' = Alert("Disconnected from server", "warning")
  /\ Observe("disconnect", NoArg, <<>>, <<>>)
  /\ UNCHANGED <<mounted, notebooks, currentNotebook, notebookContent,
                 notebookContentRef, executingCells, editingMarkdownCells,
                 autoSaveEnabled, autoSaveTimeoutRef, pending, store,
                 execInFlight, savedMem>>

\* a connect_error handler that shows nothing and leaves the status
socketConnectErrorSilent ==
  /\ socketState \in {"connecting", "disconnected"}
  /\ Observe("connect_error", NoArg, <<>>, <<>>)
  /\ UNCHANGED progVars
  /\ UNCHANGED <<execInFlight, savedMem>>

\* on('connect_error'): an attempt of the managed client to connect failed
socketConnectError ==
  /\ socketState \in {"connecting", "disconnected"}
  /\ kernelStatus' = (IF mounted THEN "error" ELSE kernelStatus)
  /\ alert' = (IF mounted THEN Alert("Socket.IO connection error", "error")
               ELSE alert)
  /\ Observe("connect_error", NoArg, <<>>, <<>>)
  /\ UNCHANGED <<mounted, notebooks, currentNotebook, notebookContent,
                 notebookContentRef, executingCells, editingMarkdownCells,
                 autoSaveEnabled, autoSaveTimeoutRef, socketState, socketRef,
                 pending, store, execInFlight, savedMem>>

(* ----------------------------- save, open ------------------------------ *)
\* the PUT of saveNotebook (part_001:673-692) called in a closure whose
\* currentNotebook is `name`: the body is serialized when the call is made
SaveRequest(name, isAutoSave, trigger) ==
  [kind |-> "PUT", name |-> name, cells |-> ToJSON(notebookContentRef),
   isAutoSave |-> isAutoSave, trigger |-> trigger, mem |-> notebookContent]

\* a clock step while the autosave timer runs
tick ==
  /\ autoSaveTimeoutRef # NoTimer
  /\ autoSaveTimeoutRef.left > 0
  /\ autoSaveTimeoutRef' =
       [autoSaveTimeoutRef EXCEPT !.left = Max(autoSaveTimeoutRef.left - TickMs, 0)]
  /\ Observe("tick", NoArg, <<>>, <<>>)
  /\ UNCHANGED <<mounted, notebooks, currentNotebook, notebookContent,
                 notebookContentRef, kernelStatus, alert, executingCells,
                 editingMarkdownCells, autoSaveEnabled, socketState, socketRef,
                 pending, store, execInFlight, savedMem>>

\* the timer callback of scheduleAutoSave: saveNotebook(true) of its closure
autoSaveFire ==
  /\ autoSaveTimeoutRef # NoTimer
  /\ autoSaveTimeoutRef.left = 0
  /\ Cardinality(pending) < MaxPending
  /\ LET req == SaveRequest(autoSaveTimeoutRef.name, TRUE, "timer")
     IN /\ pending' = pending \cup {req}
        /\ Observe("autoSaveFire", NoArg, <<>>, <<req>>)
  /\ autoSaveTimeoutRef' = NoTimer
  /\ UNCHANGED <<mounted, notebooks, currentNotebook, notebookContent,
                 notebookContentRef, kernelStatus, alert, executingCells,
                 editingMarkdownCells, autoSaveEnabled, socketState, socketRef,
                 store, execInFlight, savedMem>>

\* the save button: onClick={onSaveNotebook} passes the click event as
\* isAutoSave, which is truthy
saveClick ==
  /\ mounted
  /\ currentNotebook # Null
  /\ Cardinality(pending) < MaxPending
  /\ LET req == SaveRequest(currentNotebook, TRUE, "click")
     IN /\ pending' = pending \cup {req}
        /\ Observe("saveClick", NoArg, <<>>, <<req>>)
  /\ UNCHANGED <<mounted, notebooks, currentNotebook, notebookContent,
                 notebookContentRef, kernelStatus, alert, executingCells,
                 editingMarkdownCells, autoSaveEnabled, autoSaveTimeoutRef,
                 socketState, socketRef, store, execInFlight, savedMem>>

\* the server's answer to a PUT: a server that answers ok has stored the body
saveDone(req, ok) ==
  /\ req \in pending /\ req.kind = "PUT"
  /\ pending' = pending \ {req}
  /\ store' = (IF ok THEN [store EXCEPT ![req.name] = Stored(req.cells)] ELSE store)
  /\ savedMem' = (IF ok THEN [savedMem EXCEPT ![req.name] = Stored(req.mem)]
                  ELSE savedMem)
  /\ alert' = (IF ~mounted THEN alert
               ELSE IF ~ok THEN Alert("Failed to save notebook", "error")
               ELSE IF ~req.isAutoSave THEN Alert("Saved", "success")  \* `Saved ${name}`
               ELSE alert)
  /\ Observe("saveDone", [name |-> req.name, ok |-> ok], <<>>, <<>>)
  /\ UNCHANGED <<mounted, notebooks, currentNotebook, notebookContent,
                 notebookContentRef, kernelStatus, executingCells,
                 editingMarkdownCells, autoSaveEnabled, autoSaveTimeoutRef,
                 socketState, socketRef, execInFlight>>

\* openNotebook (part_001:612-618) up to its first await
openNotebook(name) ==
  /\ mounted
  /\ \E k \in 1..Len(notebooks) : notebooks[k] = name
  /\ Cardinality(pending) < MaxPending
  /\ LET req == [kind |-> "GET", name |-> name]
     IN /\ pending' = pending \cup {req}
        /\ Observe("openNotebook", [name |-> name], <<>>, <<req>>)
  /\ UNCHANGED <<mounted, notebooks, currentNotebook, notebookContent,
                 notebookContentRef, kernelStatus, alert, executingCells,
                 editingMarkdownCells, autoSaveEnabled, autoSaveTimeoutRef,
                 socketState, socketRef, store, execInFlight, savedMem>>

\* the answer to the GET: setCurrentNotebook(name); setNotebookContent(data.cells || [])
openDone(req, ok) ==
  /\ mounted
  /\ req \in pending /\ req.kind = "GET"
  /\ ok => store[req.name].exists
  /\ pending' = pending \ {req}
  /\ IF ok
     THEN /\ currentNotebook' = req.name
          /\ Commit(store[req.name].cells, req.name, autoSaveEnabled,
                    autoSaveTimeoutRef)
          /\ UNCHANGED alert
     ELSE /\ alert' = Alert("Failed to open notebook", "error")
          /\ NoCommit
          /\ UNCHANGED currentNotebook
  /\ Observe("openDone", [name |-> req.name, ok |-> ok], <<>>, <<>>)
  /\ UNCHANGED <<notebooks, kernelStatus, executingCells, editingMarkdownCells,
                 autoSaveEnabled, store, execInFlight, savedMem>>

\* the names the server lists
ServerNames ==
  (IF store["a.py"].exists THEN <<"a.py">> ELSE <<>>)
  \o (IF store["b.py"].exists THEN <<"b.py">> ELSE <<>>)

\* the answer to the GET of loadNotebooks (part_001:563-573)
loadNotebooksDone(req, ok) ==
  /\ mounted
  /\ req \in pending /\ req.kind = "LIST"
  /\ pending' = pending \ {req}
  /\ IF ok
     THEN notebooks' = ServerNames /\ UNCHANGED alert
     ELSE alert' = Alert("Failed to load notebooks", "error") /\ UNCHANGED notebooks
  /\ NoCommit
  /\ Observe("loadNotebooksDone", [ok |-> ok], <<>>, <<>>)
  /\ UNCHANGED <<currentNotebook, kernelStatus, executingCells,
                 editingMarkdownCells, autoSaveEnabled, store, execInFlight,
                 savedMem>>

(* ----------------------------- completion ------------------------------ *)
\* A completion call is a record: which source made it, what its promise has
\* returned ("pending" while it has returned nothing), and whether its timeout
\* timer is still set.
CompletionStep(op, arg, em, ht) ==
  /\ Step(op, arg, em, ht)
  /\ UNCHANGED progVars
  /\ UNCHANGED <<execInFlight, savedMem>>
  /\ UNCHANGED rawVars

\* filePathCompletion(context, socket): outside a file-path string (or with
\* fewer than two characters typed) it returns null at once; otherwise it sets
\* the timeout, registers its listeners and emits file_completion_request.
\* The request_id (Date.now() and nine random characters) is the call's
\* position in completionRequests: no two calls share one
filePathCompletion(inContext) ==
  /\ Len(completionRequests) < MaxCompletions
  /\ completionRequests' =
       Append(completionRequests,
              [source |-> "file", returned |-> IF inContext THEN "pending" ELSE "null",
               sent |-> inContext, timer |-> inContext,
               responseListener |-> inContext, errorListener |-> inContext])
  /\ CompletionStep("filePathCompletion", [inContext |-> inContext],
                    IF inContext
                    THEN <<[event |-> "file_completion_request",
                            request_id |-> Len(completionRequests) + 1]>>
                    ELSE <<>>, <<>>)

\* resolve / reject of a promise: nothing happens to one that is settled
Settle(r, value) == [r EXCEPT !.returned = IF @ = "pending" THEN value ELSE @]

\* a responseHandler that never looks at data.request_id
responseHandlerAnyId(r, requestId, data) ==
  IF r.responseListener
  THEN Settle([r EXCEPT !.responseListener = FALSE],
              IF data.completions = <<>> THEN "null" ELSE "suggestions")
  ELSE r

\* responseHandler of the call with this requestId, run by the socket while
\* it is registered: only data.request_id === requestId removes the listener
\* and resolves, null without completions and the options with them
responseHandler(r, requestId, data) ==
  IF r.responseListener /\ data.request_id = requestId
  THEN Settle([r EXCEPT !.responseListener = FALSE],
              IF data.completions = <<>> THEN "null" ELSE "suggestions")
  ELSE r

\* a file_completion_response event arrives for a request that was sent,
\* however late: the socket runs every registered responseHandler with it
fileCompletionResponse(request_id, completions) ==
  /\ request_id \in 1..Len(completionRequests)
  /\ completionRequests[request_id].sent
  /\ completionRequests' =
       [j \in 1..Len(completionRequests) |->
          responseHandler(completionRequests[j], j,
                          [request_id |-> request_id, completions |-> completions])]
  /\ CompletionStep("file_completion_response",
                    [request_id |-> request_id, completions |-> completions], <<>>, <<>>)

\* an error event with 'File completion error' arrives: it names no request,
\* so every registered errorHandler removes its two listeners and rejects,
\* and the catch returns null
fileCompletionError ==
  /\ \E j \in 1..Len(completionRequests) : completionRequests[j].errorListener
  /\ completionRequests' =
       [j \in 1..Len(completionRequests) |->
          IF completionRequests[j].errorListener
          THEN Settle([completionRequests[j] EXCEPT !.errorListener = FALSE,
                                                    !.responseListener = FALSE], "null")
          ELSE completionRequests[j]]
  /\ CompletionStep("file_completion_error", NoArg, <<>>, <<>>)

\* the 5 second timer of call i runs out: listeners removed, resolve(null),
\* which does nothing to a promise that is already settled
fileCompletionTimeout(i) ==
  /\ i \in 1..Len(completionRequests)
  /\ completionRequests[i].timer
  /\ completionRequests' =
       [completionRequests EXCEPT
          ![i] = Settle([@ EXCEPT !.timer = FALSE, !.responseListener = FALSE,
                                  !.errorListener = FALSE], "null")]
  /\ CompletionStep("fileCompletionTimeout", [i |-> i], <<>>, <<>>)

\* pythonCompletion(context): with nothing to complete it returns null at
\* once; otherwise it awaits fetch POST /api/v1/complete
pythonCompletion(wordMatch) ==
  /\ Len(completionRequests) < MaxCompletions
  /\ completionRequests' =
       Append(completionRequests,
              [source |-> "python", returned |-> IF wordMatch THEN "pending" ELSE "null",
               sent |-> FALSE, timer |-> FALSE,
               responseListener |-> FALSE, errorListener |-> FALSE])
  /\ CompletionStep("pythonCompletion", [wordMatch |-> wordMatch], <<>>,
                    IF wordMatch THEN <<[kind |-> "complete"]>> ELSE <<>>)

\* the fetch of call i settles: a rejection or a status that is not ok
\* returns null, no matches return null, matches return the options
pythonCompletionDone(i, ok, matches) ==
  /\ i \in 1..Len(completionRequests)
  /\ completionRequests[i].source = "python"
  /\ completionRequests[i].returned = "pending"
  /\ completionRequests' =
       [completionRequests EXCEPT ![i].returned =
          IF ok /\ matches # <<>> THEN "suggestions" ELSE "null"]
  /\ CompletionStep("pythonCompletionDone", [i |-> i, ok |-> ok], <<>>, <<>>)

(* --------------------------- notebook files ---------------------------- *)
\* the characters of the names typed into the new-notebook field and of the
\* file names; a name is the string that has these characters
Spelling ==
  [n \in {"", " ", "a", "b", " b ", "b.py", " b.py ", "a.py"} |->
     CASE n = "" -> <<>>
       [] n = " " -> <<" ">>
       [] n = "a" -> <<"a">>
       [] n = "b" -> <<"b">>
       [] n = " b " -> <<" ", "b", " ">>
       [] n = "b.py" -> <<"b", ".", "p", "y">>
       [] n = " b.py " -> <<" ", "b", ".", "p", "y", " ">>
       [] n = "a.py" -> <<"a", ".", "p", "y">>]

\* s.endsWith('.py')
EndsWithPy(s) ==
  Len(s) >= 3 /\ SubSeq(s, Len(s) - 2, Len(s)) = <<".", "p", "y">>

\* a normalization that only trims and never appends the extension
FinalNameNeverAppends(newNotebookName) ==
  CHOOSE n \in DOMAIN Spelling : Spelling[n] = Trim(Spelling[newNotebookName])

\* finalName of createNotebook
FinalName(newNotebookName) ==
  LET trimmed == Trim(Spelling[newNotebookName])
  IN CHOOSE n \in DOMAIN Spelling :
       Spelling[n] = IF EndsWithPy(trimmed) THEN trimmed
                     ELSE trimmed \o <<".", "p", "y">>

\* the Create button with newNotebookName typed
createNotebook(newNotebookName) ==
  /\ mounted
  /\ IF Trim(Spelling[newNotebookName]) = <<>>
     THEN /\ alert' = Alert("Please enter a notebook name", "warning")
          /\ Observe("createNotebook", [newNotebookName |-> newNotebookName],
                     <<>>, <<>>)
          /\ UNCHANGED pending
     ELSE LET req == [kind |-> "POST", name |-> FinalName(newNotebookName)]
          IN /\ Cardinality(pending) < MaxPending
             /\ pending' = pending \cup {req}
             /\ Observe("createNotebook", [newNotebookName |-> newNotebookName],
                        <<>>, <<req>>)
             /\ UNCHANGED alert
  /\ UNCHANGED <<mounted, notebooks, currentNotebook, notebookContent,
                 notebookContentRef, kernelStatus, executingCells,
                 editingMarkdownCells, autoSaveEnabled, autoSaveTimeoutRef,
                 socketState, socketRef, store, execInFlight, savedMem>>

\* the POST settles: the continuation of createNotebook. The server creates
\* an empty notebook, and refuses a name that exists
createNotebookDone(req, ok) ==
  /\ mounted
  /\ req \in pending /\ req.kind = "POST"
  /\ ok => ~store[req.name].exists
  /\ pending' = pending \ {req}
  /\ IF ok
     THEN /\ notebooks' = Append(notebooks, req.name)
          /\ store' = [store EXCEPT ![req.name] = Stored(<<>>)]
          /\ alert' = Alert("Notebook created successfully", "success")
     ELSE /\ alert' = Alert("Failed to create notebook", "error")
          /\ UNCHANGED <<notebooks, store>>
  /\ NoCommit
  /\ Observe("createNotebookDone", [name |-> req.name, ok |-> ok], <<>>, <<>>)
  /\ UNCHANGED <<currentNotebook, kernelStatus, executingCells,
                 editingMarkdownCells, autoSaveEnabled, execInFlight, savedMem>>

\* the delete button of a listed notebook; confirm() is the user's answer
deleteNotebook(name, confirm) ==
  /\ mounted
  /\ \E k \in 1..Len(notebooks) : notebooks[k] = name
  /\ IF ~confirm
     THEN /\ Observe("deleteNotebook", [name |-> name], <<>>, <<>>)
          /\ UNCHANGED pending
     ELSE LET req == [kind |-> "DELETE", name |-> name,
                      currentNotebook |-> currentNotebook]
          IN /\ Cardinality({r \in pending : r.kind = "DELETE"}) < MaxDeletes
             /\ pending' = pending \cup {req}
             /\ Observe("deleteNotebook", [name |-> name], <<>>, <<req>>)
  /\ UNCHANGED <<mounted, notebooks, currentNotebook, notebookContent,
                 notebookContentRef, kernelStatus, alert, executingCells,
                 editingMarkdownCells, autoSaveEnabled, autoSaveTimeoutRef,
                 socketState, socketRef, store, execInFlight, savedMem>>

\* the DELETE settles: the continuation of deleteNotebook, whose closure holds
\* the currentNotebook of the render of the click
deleteNotebookDone(req, ok) ==
  /\ mounted
  /\ req \in pending /\ req.kind = "DELETE"
  /\ ok => store[req.name].exists
  /\ pending' = pending \ {req}
  /\ IF ok
     THEN /\ notebooks' = SelectSeq(notebooks, LAMBDA n : n # req.name)
          /\ store' = [store EXCEPT ![req.name] = NoNotebook]
          /\ alert' = Alert("Notebook deleted", "success")
          /\ IF req.currentNotebook = req.name
             THEN /\ currentNotebook' = Null
                  /\ Commit(<<>>, Null, autoSaveEnabled, autoSaveTimeoutRef)
             ELSE /\ NoCommit
                  /\ UNCHANGED currentNotebook
     ELSE /\ alert' = Alert("Failed to delete notebook", "error")
          /\ NoCommit
          /\ UNCHANGED <<notebooks, store, currentNotebook>>
  /\ Observe("deleteNotebookDone", [name |-> req.name, ok |-> ok], <<>>, <<>>)
  /\ UNCHANGED <<kernelStatus, executingCells, editingMarkdownCells,
                 autoSaveEnabled, execInFlight, savedMem>>

(* ---------------- the draft without auto-save (src/App.tsx) ------------ *)
\* a draft in which auto-save is on
DraftAutoSaveOn == TRUE
\* const [autoSaveEnabled] = useState<boolean>(false): no setter, so a constant
DraftAutoSaveEnabled == FALSE

\* addCell, updateCell, handleDeleteCell, handleMoveCellUp/Down of the draft:
\* setNotebookContent(content) and nothing else (the saves are commented out)
draftSetContent(op, arg, content) ==
  /\ mounted /\ currentNotebook # Null
  /\ Len(content) <= MaxDraftCells
  /\ Commit(content, currentNotebook, FALSE, autoSaveTimeoutRef)
  /\ Observe(op, arg, <<>>, <<>>)
  /\ UNCHANGED <<notebooks, currentNotebook, kernelStatus, alert, executingCells,
                 editingMarkdownCells, autoSaveEnabled, pending, store,
                 execInFlight, savedMem>>

\* handleToggleMarkdownEdit of the draft: leaving edit mode would set a 100 ms
\* timer for saveNotebook if auto-save were enabled
draftToggleMarkdownEdit(index) ==
  /\ Shown(index)
  /\ notebookContent[index + 1].cell_type = "markdown"
  /\ IF index \in editingMarkdownCells
     THEN /\ editingMarkdownCells' = editingMarkdownCells \ {index}
          /\ autoSaveTimeoutRef' =
               (IF currentNotebook # Null /\ DraftAutoSaveEnabled
                THEN [left |-> 100, name |-> currentNotebook]
                ELSE autoSaveTimeoutRef)
     ELSE /\ editingMarkdownCells' = editingMarkdownCells \cup {index}
          /\ UNCHANGED autoSaveTimeoutRef
  /\ Observe("toggleMarkdownEdit", [index |-> index], <<>>, <<>>)
  /\ UNCHANGED <<mounted, notebooks, currentNotebook, notebookContent,
                 notebookContentRef, kernelStatus, alert, executingCells,
                 autoSaveEnabled, socketState, socketRef, pending, store,
                 execInFlight, savedMem>>

\* handleSocketMessage of the draft: the executing set, then the output
draftSocketMessage(data) ==
  /\ Receiving
  /\ data.append /\ data.output # NoOutput /\ IsNumber(data.cell_index)
       => Len(OutputsAt(notebookContent, data.cell_index.v)) < MaxOutputs
  /\ IF ~IsNumber(data.cell_index)
     THEN NoCommit /\ UNCHANGED executingCells
     ELSE /\ executingCells' =
               (IF data.status = "running"
                THEN executingCells \cup {data.cell_index.v}
                ELSE IF data.status \in {"completed", "error"}
                THEN executingCells \ {data.cell_index.v}
                ELSE executingCells)
          /\ IF data.output # NoOutput
             THEN Commit(ApplyOutput(notebookContent, data.cell_index.v,
                                     data.output, data.append),
                         currentNotebook, FALSE, autoSaveTimeoutRef)
             ELSE NoCommit
  /\ Observe("execution_result", data, <<>>, <<>>)
  /\ UNCHANGED <<notebooks, currentNotebook, kernelStatus, alert,
                 editingMarkdownCells, autoSaveEnabled, pending, store,
                 execInFlight, savedMem>>

\* useState<NotebookCellType[]>([]): the cell list of the first render, which
\* the handlers registered by the mount effect close over
MountContent == <<>>

\* handleReadCellInputRequest and handleReadCellOutputRequest of the draft,
\* registered once by connectSocket() in the mount effect: `notebookContent`
\* is the one of the first render
draftReadRequest(op, emits) ==
  /\ Receiving
  /\ Observe(op, emits.data, emits.out, <<>>)
  /\ UNCHANGED progVars
  /\ UNCHANGED <<execInFlight, savedMem>>

\* the Save button of the draft: saveNotebook() sends the cells of the render;
\* the answer is awaited under the name of the notebook
draftSaveNotebook ==
  /\ mounted
  /\ currentNotebook # Null
  /\ Cardinality(pending) < MaxPending
  /\ LET req == [kind |-> "PUT", name |-> currentNotebook]
     IN /\ pending' = pending \cup {req}
        /\ Observe("saveNotebook", NoArg, <<>>,
                   <<[kind |-> "PUT", name |-> currentNotebook,
                      cells |-> ToJSON(notebookContent)]>>)
  /\ UNCHANGED <<mounted, notebooks, currentNotebook, notebookContent,
                 notebookContentRef, kernelStatus, alert, executingCells,
                 editingMarkdownCells, autoSaveEnabled, autoSaveTimeoutRef,
                 socketState, socketRef, store, execInFlight, savedMem>>

\* the answer to the draft's PUT: `Saved ${currentNotebook}` or the failure
draftSaveDone(req, ok) ==
  /\ mounted
  /\ req \in pending /\ req.kind = "PUT"
  /\ pending' = pending \ {req}
  /\ alert' = (IF ok THEN Alert("Saved", "success")
               ELSE Alert("Failed to save notebook", "error"))
  /\ Observe("saveDone", [name |-> req.name, ok |-> ok], <<>>, <<>>)
  /\ UNCHANGED <<mounted, notebooks, currentNotebook, notebookContent,
                 notebookContentRef, kernelStatus, executingCells,
                 editingMarkdownCells, autoSaveEnabled, autoSaveTimeoutRef,
                 socketState, socketRef, store, execInFlight, savedMem>>

(* ------------------------------- unmount ------------------------------- *)
\* the component is unmounted: the cleanup of the mount effect
unmount ==
  /\ mounted
  /\ mounted' = FALSE
  /\ socketState' = (IF socketRef THEN "closed" ELSE socketState)
  /\ socketRef' = FALSE
  /\ autoSaveTimeoutRef' = NoTimer
  /\ Observe("unmount", NoArg, <<>>, <<>>)
  /\ UNCHANGED <<notebooks, currentNotebook, notebookContent, notebookContentRef,
                 kernelStatus, alert, executingCells, editingMarkdownCells,
                 autoSaveEnabled, pending, store, execInFlight, savedMem>>

(* ------------------------------- kernel -------------------------------- *)
\* the Reset Kernel button: POST /api/v1/kernel/reset
resetKernel ==
  /\ mounted
  /\ Cardinality(pending) < MaxPending
  /\ pending' = pending \cup {[kind |-> "RESET"]}
  /\ Observe("resetKernel", NoArg, <<>>, <<[kind |-> "RESET"]>>)
  /\ UNCHANGED <<mounted, notebooks, currentNotebook, notebookContent,
                 notebookContentRef, kernelStatus, alert, executingCells,
                 editingMarkdownCells, autoSaveEnabled, autoSaveTimeoutRef,
                 socketState, socketRef, store, execInFlight, savedMem>>

\* a continuation that treats a failed reset like a successful one
resetKernelDoneAlwaysClears(ok) ==
  /\ mounted
  /\ [kind |-> "RESET"] \in pending
  /\ pending' = pending \ {[kind |-> "RESET"]}
  /\ kernelStatus' = "running"
  /\ executingCells' = {}
  /\ alert' = Alert("Global kernel reset successfully", "success")
  /\ Observe("resetKernelDone", [ok |-> ok], <<>>, <<>>)
  /\ UNCHANGED <<mounted, notebooks, currentNotebook, notebookContent,
                 notebookContentRef, editingMarkdownCells, autoSaveEnabled,
                 autoSaveTimeoutRef, socketState, socketRef, store, execInFlight,
                 savedMem>>

\* the POST settles: the continuation of resetKernel
resetKernelDone(ok) ==
  /\ mounted
  /\ [kind |-> "RESET"] \in pending
  /\ pending' = pending \ {[kind |-> "RESET"]}
  /\ IF ok
     THEN /\ kernelStatus' = "running"
          /\ executingCells' = {}
          /\ alert' = Alert("Global kernel reset successfully", "success")
     ELSE /\ kernelStatus' = "error"
          /\ alert' = Alert("Failed to reset kernel", "error")
          /\ UNCHANGED executingCells
  /\ Observe("resetKernelDone", [ok |-> ok], <<>>, <<>>)
  /\ UNCHANGED <<mounted, notebooks, currentNotebook, notebookContent,
                 notebookContentRef, editingMarkdownCells, autoSaveEnabled,
                 autoSaveTimeoutRef, socketState, socketRef, store, execInFlight,
                 savedMem>>

\* the server's completed or error execution_result for a cell whose
\* execute_code it received
ServerSettles ==
  \E index \in execInFlight, status \in {"completed", "error"} :
    handleSocketMessage([cell_index |-> Num(index), status |-> status,
                         output |-> NoOutput, append |-> FALSE])

\* Socket.IO delivers an event at most once: the result of an execution that
\* was in flight when the connection dropped never arrives
resultLost(index) ==
  /\ socketState = "disconnected"
  /\ index \in execInFlight
  /\ execInFlight' = execInFlight \ {index}
  /\ UNCHANGED progVars
  /\ UNCHANGED savedMem
  /\ Observe("resultLost", [index |-> index], <<>>, <<>>)

(* ------------------------------ payloads ------------------------------ *)
\* execution_result payloads: a phase, at most one chunk, the append flag
ExecutionResults(indices) ==
  [cell_index : indices, status : {"running", "completed", "error", ""},
   output : Chunks \cup {NoOutput}, append : BOOLEAN]

MoveCells(indices) == [cell_index : indices, new_index : indices]

AddCells(indices) ==
  [cell_index : indices, cell_type : {"", "markdown", "raw"},
   content : {<<>>, <<"x">>}]

DeleteCells(indices) == [cell_index : indices]

StringField(text) == [t |-> "string", v |-> text]
NoStringField == [t |-> "undefined", v |-> <<>>]

AlterCellContents(indices) ==
  [cell_index : indices, content : {StringField(<<"x">>), NoStringField}]

SwapCellTypes(indices) ==
  [cell_index : indices, new_type : {"code", "markdown", "raw"}]

ReadRequests(indices) == [cell_index : indices, request_id : RequestIds]

ListRequests == [request_id : RequestIds]

(* ------------------- the raw-WebSocket draft (part_003) ---------------- *)
\* useState<string | null>(null) for kernelId: kernels are numbered from 1 in
\* the order the server starts them, 0 is null
NoKernelId == 0
\* useState<WebSocket | null>(null): sockets are numbered from 1 in the order
\* they are created, 0 is null
NoWebsocket == 0

\* what the handlers of the raw draft leave alone
RawUnchanged ==
  UNCHANGED <<mounted, notebooks, currentNotebook, notebookContent,
              notebookContentRef, editingMarkdownCells, autoSaveEnabled,
              autoSaveTimeoutRef, socketState, socketRef, store, execInFlight,
              savedMem, completionRequests>>

\* new WebSocket(wsUrl) in connectWebSocket: its handlers close over the
\* kernelId and kernelStatus of the render that made connectWebSocket
NewWebSocket(id, status) ==
  [kernelId |-> id, kernelStatus |-> status, readyState |-> "CONNECTING"]

\* connectWebSocket() called with the closure (id, status)
connectWebSocket(sockets, id, status) ==
  IF id = NoKernelId THEN sockets
  ELSE Append(sockets, NewWebSocket(id, status))

\* ws.close(): starts the closing handshake; the close event comes later
Close(sockets, ws) ==
  IF ws = NoWebsocket THEN sockets
  ELSE IF sockets[ws].readyState \in {"CONNECTING", "OPEN"}
       THEN [sockets EXCEPT ![ws].readyState = "CLOSING"]
       ELSE sockets

\* useEffect(..., [kernelId]) after a render with kernelId `id`, kernelStatus
\* `status` and websocket `ws`: when kernelId changed, the cleanup of the last
\* run closes the websocket of ITS render, then a socket is opened if the
\* kernel is set and this render holds no websocket
KernelIdEffect(sockets, id, status, ws) ==
  IF id = kernelId THEN sockets
  ELSE LET cleaned == Close(sockets, cleanupWebsocket)
       IN IF id # NoKernelId /\ ws = NoWebsocket
          THEN connectWebSocket(cleaned, id, status)
          ELSE cleaned

\* the Start button (disabled while kernelStatus is 'running'): the POST is
\* issued and nothing else happens until it settles
startKernel ==
  /\ mounted
  /\ kernelStatus # "running"
  /\ Len(serverKernels) + Cardinality({r \in pending : r.kind = "START"})
       < MaxKernels
  /\ LET nth == CHOOSE n \in 1..MaxKernels :
                  /\ [kind |-> "START", nth |-> n] \notin pending
                  /\ \A m \in 1..(n - 1) : [kind |-> "START", nth |-> m] \in pending
         req == [kind |-> "START", nth |-> nth]
     IN /\ pending' = pending \cup {req}
        /\ Step("startKernel", NoArg, <<>>, <<req>>)
  /\ UNCHANGED <<kernelStatus, alert, executingCells>>
  /\ UNCHANGED rawVars
  /\ RawUnchanged

\* the POST settles: the continuation of startKernel, the render and the kernelId
\* effect. The continuation runs outside a React event handler: where React
\* batches its two updates the effect sees kernelStatus 'running', where it
\* renders after setKernelId alone the effect sees the status of before
startKernelDone(req, ok) ==
  /\ req \in pending /\ req.kind = "START"
  /\ mounted
  /\ pending' = pending \ {req}
  /\ IF ok
     THEN \E status \in {kernelStatus, "running"} :
          LET id == Len(serverKernels) + 1
          IN /\ Len(KernelIdEffect(webSockets, id, status, websocket)) <= MaxSockets
             /\ serverKernels' = Append(serverKernels, TRUE)
             /\ kernelId' = id
             /\ kernelStatus' = "running"
             /\ alert' = Alert("Kernel started", "success")
             /\ webSockets' = KernelIdEffect(webSockets, id, status, websocket)
             /\ cleanupWebsocket' = websocket
     ELSE /\ kernelStatus' = "error"
          /\ alert' = Alert("Failed to start kernel", "error")
          /\ UNCHANGED <<serverKernels, kernelId, webSockets, cleanupWebsocket>>
  /\ Step("startKernelDone", [ok |-> ok], <<>>, <<>>)
  /\ UNCHANGED <<websocket, reconnectTimers, executingCells>>
  /\ RawUnchanged

\* the Stop button (disabled while kernelStatus is 'idle'): closes the
\* websocket of the render, clears it and issues the DELETE
stopKernel ==
  /\ mounted
  /\ kernelStatus # "idle"
  /\ kernelId # NoKernelId
  /\ LET req == [kind |-> "STOP", kernelId |-> kernelId]
     IN /\ pending' = pending \cup {req}
        /\ Step("stopKernel", NoArg, <<>>, <<req>>)
  /\ webSockets' = Close(webSockets, websocket)
  /\ websocket' = NoWebsocket
  /\ UNCHANGED <<kernelId, cleanupWebsocket, reconnectTimers, serverKernels>>
  /\ UNCHANGED <<kernelStatus, alert, executingCells>>
  /\ RawUnchanged

\* the DELETE settles: the continuation of stopKernel, the render and the
\* kernelId effect
stopKernelDone(req, ok) ==
  /\ req \in pending /\ req.kind = "STOP"
  /\ mounted
  /\ pending' = pending \ {req}
  /\ IF ok
     THEN /\ serverKernels' = [serverKernels EXCEPT ![req.kernelId] = FALSE]
          /\ kernelStatus' = "idle"
          /\ kernelId' = NoKernelId
          /\ executingCells' = {}
          /\ alert' = Alert("Kernel stopped", "info")
          /\ webSockets' = KernelIdEffect(webSockets, NoKernelId, "idle", websocket)
          /\ cleanupWebsocket' = (IF kernelId = NoKernelId THEN cleanupWebsocket
                                   ELSE websocket)
     ELSE /\ kernelStatus' = "error"
          /\ alert' = Alert("Failed to stop kernel", "error")
          /\ UNCHANGED <<serverKernels, kernelId, executingCells, webSockets,
                         cleanupWebsocket>>
  /\ Step("stopKernelDone", [ok |-> ok], <<>>, <<>>)
  /\ UNCHANGED <<websocket, reconnectTimers>>
  /\ RawUnchanged

\* the server accepts the connection of socket ws (its kernel is alive):
\* ws.onopen
wsOpen(ws) ==
  /\ mounted
  /\ ws \in 1..Len(webSockets)
  /\ webSockets[ws].readyState = "CONNECTING"
  /\ serverKernels[webSockets[ws].kernelId]
  /\ webSockets' = [webSockets EXCEPT ![ws].readyState = "OPEN"]
  /\ websocket' = ws
  /\ Step("wsOpen", [ws |-> ws], <<>>, <<>>)
  /\ UNCHANGED <<kernelId, cleanupWebsocket, reconnectTimers, serverKernels>>
  /\ UNCHANGED <<kernelStatus, alert, executingCells, pending>>
  /\ RawUnchanged

\* socket ws is closed (the handshake that close() began ends, the connection
\* is refused, or the connection drops): ws.onclose
wsClose(ws) ==
  /\ mounted
  /\ ws \in 1..Len(webSockets)
  /\ webSockets[ws].readyState # "CLOSED"
  /\ webSockets' = [webSockets EXCEPT ![ws].readyState = "CLOSED"]
  /\ websocket' = NoWebsocket
  /\ reconnectTimers' = (IF webSockets[ws].kernelStatus = "running"
                         THEN reconnectTimers \cup {ws}
                         ELSE reconnectTimers)
  /\ Step("wsClose", [ws |-> ws], <<>>, <<>>)
  /\ UNCHANGED <<kernelId, cleanupWebsocket, serverKernels>>
  /\ UNCHANGED <<kernelStatus, alert, executingCells, pending>>
  /\ RawUnchanged

\* the timer that the close of socket ws set runs out: connectWebSocket() of
\* the closure that made ws
reconnectFire(ws) ==
  /\ mounted
  /\ ws \in reconnectTimers
  /\ Len(webSockets) < MaxSockets
  /\ reconnectTimers' = reconnectTimers \ {ws}
  /\ webSockets' = connectWebSocket(webSockets, webSockets[ws].kernelId,
                                    webSockets[ws].kernelStatus)
  /\ Step("reconnectFire", [ws |-> ws], <<>>, <<>>)
  /\ UNCHANGED <<kernelId, websocket, cleanupWebsocket, serverKernels>>
  /\ UNCHANGED <<kernelStatus, alert, executingCells, pending>>
  /\ RawUnchanged

\* the WebSockets that are open
OpenSockets == {ws \in 1..Len(webSockets) : webSockets[ws].readyState = "OPEN"}

(* ------------------------------- initial ------------------------------ *)
\* no kernel started, no WebSocket created (part_003:58-66)
NoRawSocket ==
  /\ kernelId = NoKernelId
  /\ websocket = NoWebsocket
  /\ cleanupWebsocket = NoWebsocket
  /\ webSockets = <<>>
  /\ reconnectTimers = {}
  /\ serverKernels = <<>>

\* what the server holds when the client starts
StoreInit ==
  [n \in Names |-> IF n = "a.py" THEN Stored(<<cellA>>) ELSE NoNotebook]

\* The state after the first render and its effects: loadNotebooks has
\* issued its GET and connectSocket has created the socket
Init ==
  /\ mounted = TRUE
  /\ notebooks = <<>>
  /\ currentNotebook = Null
  /\ notebookContent = <<>>
  /\ notebookContentRef = <<>>
  /\ kernelStatus = "idle"
  /\ alert = NoAlert
  /\ executingCells = {}
  /\ editingMarkdownCells = {}
  /\ autoSaveEnabled = TRUE
  /\ autoSaveTimeoutRef = NoTimer
  /\ socketState = "connecting"
  /\ socketRef = TRUE
  /\ pending = {[kind |-> "LIST"]}
  /\ store = StoreInit
  /\ emitted = <<>>
  /\ http = <<>>
  /\ last = Op("mount", NoArg)
  /\ execInFlight = {}
  /\ savedMem = [n \in Names |-> NoNotebook]
  /\ NoRawSocket
  /\ completionRequests = <<>>

\* The state once notebook a.py, which the server holds with `cells`, has
\* been opened over a connected socket and the save that follows the open
\* has been answered
Opened(cells) ==
  /\ mounted = TRUE
  /\ notebooks = <<"a.py">>
  /\ currentNotebook = "a.py"
  /\ notebookContent = cells
  /\ notebookContentRef = cells
  /\ kernelStatus = "running"
  /\ alert = NoAlert
  /\ executingCells = {}
  /\ editingMarkdownCells = {}
  /\ autoSaveEnabled = TRUE
  /\ autoSaveTimeoutRef = NoTimer
  /\ socketState = "connected"
  /\ socketRef = TRUE
  /\ pending = {}
  /\ store = [n \in Names |-> IF n = "a.py" THEN Stored(cells) ELSE NoNotebook]
  /\ emitted = <<>>
  /\ http = <<>>
  /\ last = Op("saveDone", [name |-> "a.py", ok |-> TRUE])
  /\ execInFlight = {}
  /\ savedMem = [n \in Names |-> IF n = "a.py" THEN Stored(cells) ELSE NoNotebook]
  /\ NoRawSocket
  /\ completionRequests = <<>>

\* indices of the positions of the current list
Positions == 0..(Len(notebookContent) - 1)

\* The client from mount: opening a notebook, editing and running its cells,
\* the kernel's streamed results, the autosave timer and the saves
Next ==
  \/ \E req \in pending, ok \in BOOLEAN : loadNotebooksDone(req, ok)
  \/ \E name \in Names : openNotebook(name)
  \/ \E req \in pending, ok \in BOOLEAN : openDone(req, ok)
  \/ socketConnect
  \/ \E i \in Positions, t \in {<<>>, <<"x">>} : updateCell(i, [source |-> <<t>>])
  \/ \E i \in Positions : executeCell(i)
  \/ \E req \in pending, ok \in BOOLEAN : executeHttpDone(req, ok, <<"o1">>)
  \/ \E data \in [cell_index : {Num(0)}, status : {"running", "completed"},
                   output : {"o1", NoOutput}, append : {FALSE}] :
       handleSocketMessage(data)
  \/ tick
  \/ autoSaveFire
  \/ saveClick
  \/ \E req \in pending, ok \in BOOLEAN : saveDone(req, ok)

Spec == Init /\ [][Next]_vars

(* --------------------- the cell list of an open notebook -------------- *)
\* the cell lists a stored notebook holds: up to MaxCells different cells
CellLists ==
  {cells \in UNION {[1..n -> {cellA, cellB, cellC}] : n \in 0..MaxCells} :
     \A j, k \in 1..Len(cells) : cells[j] = cells[k] => j = k}

InitCells == \E cells \in CellLists : Opened(cells)

\* the user's four list operations on the cells shown, and the server's
\* move_cell events between positions of the list (-1 counts from the end)
NextCells ==
  \/ addCell
  \/ \E i \in Positions : handleDeleteCell(i)
  \/ \E i \in Positions : handleMoveCellUp(i)
  \/ \E i \in Positions : handleMoveCellDown(i)
  \/ \E data \in MoveCells({Num(i) : i \in {-1} \cup Positions}) :
       handleMoveCellMessage(data)

SpecCells == InitCells /\ [][NextCells]_vars

(* ------------------------------ running cells ------------------------- *)
InitExec ==
  \E cells \in {<<cellA>>, <<cellC>>, <<cellB, cellA>>, <<cellC, cellA>>} :
    Opened(cells)

\* running the cells shown, over the socket or over HTTP, and the kernel's
\* streamed results for the first cell
NextExec ==
  \/ socketConnect
  \/ socketDisconnect
  \/ socketConnectError
  \/ \E i \in Positions : executeCell(i)
  \/ \E req \in pending, ok \in BOOLEAN, out \in {<<>>, <<"o1">>} :
       executeHttpDone(req, ok, out)
  \/ \E data \in ExecutionResults({Num(0)}) : handleSocketMessage(data)

SpecExec == InitExec /\ [][NextExec]_vars

(* ---------------------------- the agent's reads ------------------------ *)
\* the agent's tools before and after a notebook is opened: type swaps and
\* deletions, and the three read requests
NextRead ==
  \/ \E req \in pending, ok \in BOOLEAN : loadNotebooksDone(req, ok)
  \/ socketConnect
  \/ \E name \in Names : openNotebook(name)
  \/ \E req \in pending, ok \in BOOLEAN : openDone(req, ok)
  \/ \E data \in SwapCellTypes({Num(0), Num(1), NotNum}) :
       handleSwapCellTypeMessage(data)
  \/ \E data \in DeleteCells({Num(0)}) : handleDeleteCellMessage(data)
  \/ \E data \in ReadRequests(Indices \cup {NotNum}) :
       handleReadCellInputRequest(data)
  \/ \E data \in ReadRequests(Indices \cup {NotNum}) :
       handleReadCellOutputRequest(data)
  \/ \E data \in ListRequests : handleListAllCellsRequest(data)

SpecRead == Init /\ [][NextRead]_vars

(* ---------------------------- save and reopen -------------------------- *)
\* opening a notebook, the agent's content edits, the autosave timer, the
\* save button and the server's answers
NextStore ==
  \/ \E req \in pending, ok \in BOOLEAN : loadNotebooksDone(req, ok)
  \/ socketConnect
  \/ \E name \in Names : openNotebook(name)
  \/ \E req \in pending, ok \in BOOLEAN : openDone(req, ok)
  \/ addCell
  \/ \E i \in Positions : updateCell(i, [source |-> << <<" ">> >>])
  \/ \E data \in AlterCellContents({Num(0), Num(MaxCells - 1)}) :
       handleAlterCellContentMessage(data)
  \/ tick
  \/ autoSaveFire
  \/ saveClick
  \/ \E req \in pending, ok \in BOOLEAN : saveDone(req, ok)

SpecStore == Init /\ [][NextStore]_vars

(* ------------------------- the agent's edits --------------------------- *)
\* a.py is open with a code cell and a markdown cell, the socket is connected;
\* the server sends well-formed and malformed events
NextEvents ==
  \/ \E index \in Positions : handleToggleMarkdownEdit(index)
  \/ \E data \in [cell_index : {Num(0), NotNum}, status : {"running", "completed"},
                   output : {NoOutput}, append : {FALSE}] :
        handleSocketMessage(data)
  \/ \E data \in AddCells({Num(0), NotNum}) :
        /\ data.content = <<"x">> /\ data.cell_type # ""
        /\ handleAddCellMessage(data)
  \/ \E data \in DeleteCells({Num(0), NotNum}) : handleDeleteCellMessage(data)
  \/ \E data \in AlterCellContents({Num(MaxCells - 1), NotNum}) :
        handleAlterCellContentMessage(data)
  \/ \E data \in SwapCellTypes({Num(0), NotNum}) : handleSwapCellTypeMessage(data)
  \/ \E data \in MoveCells({Num(0), Num(1), NotNum}) : handleMoveCellMessage(data)

SpecEvents == Opened(<<cellA, cellB>>) /\ [][NextEvents]_vars

(* ---------------------- executions that settle ------------------------ *)
\* the server answers every execute_code it received while the connection
\* lasts; nothing obliges the connection to last or the user to act
NextSettle ==
  \/ socketConnect
  \/ socketDisconnect
  \/ \E index \in Positions : executeCell(index)
  \/ \E req \in pending, ok \in BOOLEAN : executeHttpDone(req, ok, <<"o1">>)
  \/ ServerSettles
  \/ \E index \in Positions : resultLost(index)
  \/ resetKernel
  \/ \E ok \in BOOLEAN : resetKernelDone(ok)

SpecSettle ==
  /\ Opened(<<cellA, cellB>>)
  /\ [][NextSettle]_vars
  /\ WF_vars(ServerSettles)

(* --------------------------- notebook files ---------------------------- *)
NextFiles ==
  \/ \E req \in pending, ok \in BOOLEAN : loadNotebooksDone(req, ok)
  \/ \E newNotebookName \in DOMAIN Spelling : createNotebook(newNotebookName)
  \/ \E req \in pending, ok \in BOOLEAN : createNotebookDone(req, ok)
  \/ \E name \in Names, confirm \in BOOLEAN : deleteNotebook(name, confirm)
  \/ \E req \in pending, ok \in BOOLEAN : deleteNotebookDone(req, ok)
  \/ \E name \in Names : openNotebook(name)
  \/ \E req \in pending, ok \in BOOLEAN : openDone(req, ok)
  \/ saveClick
  \/ \E req \in pending, ok \in BOOLEAN : saveDone(req, ok)

SpecFiles == Init /\ [][NextFiles]_vars

\* notebooks that are created, opened and deleted while the autosave timer,
\* which the effect of an opened notebook's cell list arms, runs and cells are
\* run; the server answers creations, listings and saves with success
NextFilesTimed ==
  \/ \E req \in pending : loadNotebooksDone(req, TRUE)
  \/ createNotebook("b")
  \/ \E req \in pending : createNotebookDone(req, TRUE)
  \/ \E name \in Names : deleteNotebook(name, TRUE)
  \/ \E req \in pending, ok \in BOOLEAN : deleteNotebookDone(req, ok)
  \/ \E name \in Names : openNotebook(name)
  \/ \E req \in pending, ok \in BOOLEAN : openDone(req, ok)
  \/ \E req \in pending : saveDone(req, TRUE)
  \/ tick
  \/ autoSaveFire
  \/ socketConnect
  \/ \E index \in Positions : executeCell(index)
  \/ \E req \in pending, ok \in BOOLEAN : executeHttpDone(req, ok, <<"o1">>)

SpecFilesTimed == Init /\ [][NextFilesTimed]_vars

(* --------------------------- the agent's edits ------------------------- *)
\* the agent's add_cell, delete_cell, swap_cell_type and alter_cell_content
\* events on an open notebook, next to the user's delete and edit toggle
NextAgent ==
  \/ \E data \in [cell_index : {Num(0), Num(1)}, cell_type : {"", "markdown"},
                   content : {<<"x">>}] : handleAddCellMessage(data)
  \/ \E data \in DeleteCells({Num(0), Num(MaxCells)}) : handleDeleteCellMessage(data)
  \/ \E index \in Positions : handleDeleteCell(index)
  \/ \E data \in [cell_index : {Num(0), Num(1)}, new_type : {"code", "markdown"}] :
        handleSwapCellTypeMessage(data)
  \/ \E data \in AlterCellContents({Num(MaxCells - 1)}) :
        handleAlterCellContentMessage(data)
  \/ \E data \in MoveCells({Num(0), Num(1)}) : handleMoveCellMessage(data)
  \/ \E index \in Positions : handleToggleMarkdownEdit(index)
  \/ \E index \in Positions : updateCell(index, [source |-> << <<"x">> >>])

SpecAgent == Opened(<<cellA, cellB>>) /\ [][NextAgent]_vars

(* ------------------------- flags and positions ------------------------- *)
\* the operations that reorder or resize the list, while a markdown cell is
\* being edited and a cell is executing
NextFlags ==
  \/ addCell
  \/ \E index \in Positions : handleDeleteCell(index)
  \/ \E index \in Positions : handleMoveCellUp(index)
  \/ \E index \in Positions : handleMoveCellDown(index)
  \/ \E data \in [cell_index : {Num(0)}, cell_type : {"markdown"},
                   content : {<<"x">>}] : handleAddCellMessage(data)
  \/ \E data \in DeleteCells({Num(0)}) : handleDeleteCellMessage(data)
  \/ \E data \in MoveCells({Num(0), Num(1)}) : handleMoveCellMessage(data)
  \/ \E index \in Positions : handleToggleMarkdownEdit(index)
  \/ \E data \in [cell_index : {Num(1)}, status : {"running", "completed"},
                   output : {NoOutput}, append : {FALSE}] :
        handleSocketMessage(data)

SpecFlags == Opened(<<cellA, cellB>>) /\ [][NextFlags]_vars

(* ----------------------- the draft without auto-save ------------------- *)
NextDraft ==
  \/ draftSetContent("addCell", NoArg, AddCellContent(notebookContent))
  \/ \E index \in Positions :
        draftSetContent("updateCell", [index |-> index],
                        UpdateCellContent(notebookContent, index,
                                          [source |-> << <<"x">> >>]))
  \/ \E index \in Positions :
        draftSetContent("deleteCell", [index |-> index],
                        FilterIndex(notebookContent, index))
  \/ \E index \in Positions \ {0} :
        draftSetContent("moveUp", [index |-> index],
                        SwapCells(notebookContent, index - 1, index))
  \/ \E index \in Positions \ {Len(notebookContent) - 1} :
        draftSetContent("moveDown", [index |-> index],
                        SwapCells(notebookContent, index, index + 1))
  \/ \E index \in Positions : draftToggleMarkdownEdit(index)
  \/ \E data \in {[cell_index |-> Num(0), status |-> "running",
                    output |-> NoOutput, append |-> FALSE],
                   [cell_index |-> Num(0), status |-> "completed",
                    output |-> "o1", append |-> FALSE]} :
        draftSocketMessage(data)
  \/ draftSaveNotebook
  \/ \E req \in pending, ok \in BOOLEAN : draftSaveDone(req, ok)
  \/ \E data \in ReadRequests({Num(0)}) :
        draftReadRequest("read_cell_input_request",
                         [data |-> data,
                          out |-> ReadCellInputEmits(MountContent, data)])
  \/ \E data \in ReadRequests({Num(0)}) :
        draftReadRequest("read_cell_output_request",
                         [data |-> data,
                          out |-> ReadCellOutputEmits(MountContent, data)])

SpecDraft == Opened(<<cellA, cellB>>) /\ [][NextDraft]_vars

(* ------------------------------ teardown ------------------------------- *)
NextUnmount ==
  \/ socketConnect
  \/ socketDisconnect
  \/ \E index \in Positions : executeCell(index)
  \/ \E req \in pending, ok \in BOOLEAN : executeHttpDone(req, ok, <<"o1">>)
  \/ \E index \in Positions : updateCell(index, [source |-> << <<"x">> >>])
  \/ tick
  \/ autoSaveFire
  \/ \E req \in pending, ok \in BOOLEAN : saveDone(req, ok)
  \/ unmount

SpecUnmount == Opened(<<cellA, cellB>>) /\ [][NextUnmount]_vars

(* ----------------------------- completions ----------------------------- *)
\* the client's own timers run out; nothing obliges the server to answer
NextCompletion ==
  \/ \E inContext \in BOOLEAN : filePathCompletion(inContext)
  \/ \E request_id \in 1..MaxCompletions, completions \in {<<>>, <<"a.py">>} :
        fileCompletionResponse(request_id, completions)
  \/ fileCompletionError
  \/ \E i \in 1..MaxCompletions : fileCompletionTimeout(i)
  \/ \E wordMatch \in BOOLEAN : pythonCompletion(wordMatch)
  \/ \E i \in 1..MaxCompletions, ok \in BOOLEAN, matches \in {<<>>, <<"print">>} :
        pythonCompletionDone(i, ok, matches)

SpecCompletion ==
  /\ Opened(<<cellA>>)
  /\ [][NextCompletion]_vars
  /\ \A i \in 1..MaxCompletions : WF_vars(fileCompletionTimeout(i))

(* --------------------- kernels and the raw WebSocket ------------------- *)
\* the draft's mount effect only loads the notebook list (part_003:73-76)
InitRaw ==
  /\ mounted = TRUE
  /\ notebooks = <<>>
  /\ currentNotebook = Null
  /\ notebookContent = <<>>
  /\ notebookContentRef = <<>>
  /\ kernelStatus = "idle"
  /\ alert = NoAlert
  /\ executingCells = {}
  /\ editingMarkdownCells = {}
  /\ autoSaveEnabled = TRUE
  /\ autoSaveTimeoutRef = NoTimer
  /\ socketState = "none"
  /\ socketRef = FALSE
  /\ pending = {}
  /\ store = StoreInit
  /\ emitted = <<>>
  /\ http = <<>>
  /\ last = Op("mount", NoArg)
  /\ execInFlight = {}
  /\ savedMem = [n \in Names |-> NoNotebook]
  /\ NoRawSocket
  /\ completionRequests = <<>>

NextRaw ==
  \/ startKernel
  \/ \E req \in pending, ok \in BOOLEAN : startKernelDone(req, ok)
  \/ stopKernel
  \/ \E req \in pending, ok \in BOOLEAN : stopKernelDone(req, ok)
  \/ \E ws \in 1..MaxSockets : wsOpen(ws)
  \/ \E ws \in 1..MaxSockets : wsClose(ws)
  \/ \E ws \in 1..MaxSockets : reconnectFire(ws)

SpecRaw == InitRaw /\ [][NextRaw]_vars

(* ------------------------------- claims ------------------------------- *)
\* C1: over the user's addCell, deleteCell(i), moveUp(i) and moveDown(i) on
\* the cells of an open notebook, the number of cells grows by one on addCell,
\* shrinks by one on deleteCell and is the same after moveUp and moveDown.
C1_CountChangesOnlyOnAddDelete ==
  [][ /\ last'.op = "addCell"
           => Len(notebookContent') = Len(notebookContent) + 1
      /\ last'.op = "deleteCell"
           => Len(notebookContent') = Len(notebookContent) - 1
      /\ last'.op \in {"moveUp", "moveDown"}
           => Len(notebookContent') = Len(notebookContent)
    ]_vars

\* a cell that addCell appended is still there after a later deleteCell
C1_Witness ==
  /\ last.op = "deleteCell"
  /\ Len(notebookContent) >= 2
  /\ \E k \in 1..Len(notebookContent) : notebookContent[k] = NewCell

C3_NoAutosaveWhileExecuting ==
  execInFlight # {}
    => \A k \in 1..Len(http) : ~(http[k].kind = "PUT" /\ http[k].trigger = "timer")

\* C4: a read_cell_input_request or read_cell_output_request with a numeric
\* cell_index and a request_id, and a list_all_cells_request with a
\* request_id, is answered by exactly one emission, on the paired response
\* event and with the request's request_id.
C4_ExactlyOneReply ==
  /\ ( /\ last.op \in {"read_cell_input_request", "read_cell_output_request"}
       /\ IsNumber(last.arg.cell_index)
       /\ last.arg.request_id # "" )
       => /\ Len(emitted) = 1
          /\ emitted[1].request_id = last.arg.request_id
          /\ emitted[1].event =
               (IF last.op = "read_cell_input_request"
                THEN "read_cell_input_response"
                ELSE "read_cell_output_response")
  /\ (last.op = "list_all_cells_request" /\ last.arg.request_id # "")
       => /\ Len(emitted) = 1
          /\ emitted[1].request_id = last.arg.request_id
          /\ emitted[1].event = "list_all_cells_response"

\* C5: a read_cell_output_request (with a request_id) whose cell_index is at
\* or past the number of cells is answered by one response with an empty
\* outputs list, and a read_cell_input_request for such an index by one
\* response with the empty string.
C5_MissingCellRepliesEmpty ==
  /\ ( /\ last.op = "read_cell_output_request"
       /\ IsNumber(last.arg.cell_index)
       /\ last.arg.request_id # ""
       /\ last.arg.cell_index.v >= Len(notebookContent) )
       => emitted = <<[event |-> "read_cell_output_response",
                       request_id |-> last.arg.request_id, outputs |-> <<>>]>>
  /\ ( /\ last.op = "read_cell_input_request"
       /\ IsNumber(last.arg.cell_index)
       /\ last.arg.request_id # ""
       /\ last.arg.cell_index.v >= Len(notebookContent) )
       => emitted = <<[event |-> "read_cell_input_response",
                       request_id |-> last.arg.request_id, content |-> <<>>]>>

\* the outputs of the cell one past the end of a non-empty list were asked for
C5_Witness ==
  /\ last.op = "read_cell_output_request"
  /\ last.arg.request_id # ""
  /\ IsNumber(last.arg.cell_index)
  /\ Len(notebookContent) >= 1
  /\ last.arg.cell_index.v = Len(notebookContent)
  /\ Len(emitted) = 1

\* C6: executeCell on a code cell whose joined source has only whitespace
\* characters (or none) emits nothing on the socket, issues no HTTP request,
\* shows the warning 'Cell is empty', and leaves the cell list (so the cell's
\* outputs) and the executing set as they were.
C6_BlankCellNotRun ==
  [][ ( /\ last'.op = "executeCell"
        /\ LET cell == notebookContent[last'.arg.index + 1]
               text == Join(cell.source)
           IN /\ cell.cell_type = "code"
              /\ \A k \in 1..Len(text) : text[k] \in Whitespace )
      => /\ emitted' = <<>>
         /\ http' = <<>>
         /\ pending' = pending
         /\ alert' = Alert("Cell is empty", "warning")
         /\ alert'.severity = "warning"
         /\ notebookContent' = notebookContent
         /\ executingCells' = executingCells
    ]_vars

\* a code cell holding only whitespace was run and the warning is shown
C6_Witness ==
  /\ last.op = "executeCell"
  /\ alert = Alert("Cell is empty", "warning")
  /\ LET cell == notebookContent[last.arg.index + 1]
     IN /\ cell.cell_type = "code"
        /\ Len(Join(cell.source)) >= 2
        /\ cell.outputs # <<>>

\* C7: an execution_result chunk for an existing cell leaves the cell's
\* outputs as the single chunk when append is false and as the outputs it had
\* (none, when the same event carries status 'running') followed by the chunk
\* when append is true; so two appended chunks after a cleared list give both
\* chunks in arrival order.
C7_ChunksInArrivalOrder ==
  [][ ( /\ last'.op = "execution_result"
        /\ IsNumber(last'.arg.cell_index)
        /\ last'.arg.output # NoOutput
        /\ IsObject(At(notebookContent, last'.arg.cell_index.v)) )
      => LET i == last'.arg.cell_index.v
             before == IF last'.arg.status = "running"
                       THEN <<>>
                       ELSE OutputsAt(notebookContent, i)
         IN OutputsAt(notebookContent', i) =
              (IF last'.arg.append
               THEN before \o <<last'.arg.output>>
               ELSE <<last'.arg.output>>)
    ]_vars

\* the second of two different chunks was appended to the first cell
C7_Witness ==
  /\ last.op = "execution_result"
  /\ last.arg.append
  /\ last.arg.output = "o2"
  /\ last.arg.status # "running"
  /\ OutputsAt(notebookContent, 0) = <<"o1", "o2">>

\* C8: a move_cell event whose cell_index a and new_index b are positions of
\* the list leaves the list with the element at a removed and then inserted
\* at position b of the shortened list; [A,B,C] and move_cell(0,2) give
\* [B,C,A].
C8_MoveIsRemoveThenInsert ==
  [][ ( /\ last'.op = "move_cell"
        /\ IsNumber(last'.arg.cell_index)
        /\ IsNumber(last'.arg.new_index)
        /\ last'.arg.cell_index.v \in 0..(Len(notebookContent) - 1)
        /\ last'.arg.new_index.v \in 0..(Len(notebookContent) - 1) )
      => LET c == notebookContent
             a == last'.arg.cell_index.v
             b == last'.arg.new_index.v
             shortened == [k \in 1..(Len(c) - 1) |-> IF k <= a THEN c[k] ELSE c[k + 1]]
             moved == [k \in 1..Len(c) |->
                         IF k <= b THEN shortened[k]
                         ELSE IF k = b + 1 THEN c[a + 1]
                         ELSE shortened[k - 1]]
         IN /\ notebookContent' = moved
            /\ (c = <<cellA, cellB, cellC>> /\ a = 0 /\ b = 2)
                 => notebookContent' = <<cellB, cellC, cellA>>
    ]_vars

\* move_cell(0,2) has been applied and the list is [B,C,A]
C8_Witness ==
  /\ last.op = "move_cell"
  /\ last.arg = [cell_index |-> Num(0), new_index |-> Num(2)]
  /\ notebookContent = <<cellB, cellC, cellA>>

\* C9: moveUp of the first cell and moveDown of the last cell change nothing
\* (the cell list, the ref and the timer are as before); moveUp and moveDown
\* of any other cell shown exchange it with its neighbour above or below and
\* leave every other position as it was.
C9_MoveUpDown ==
  [][ /\ last'.op = "moveUp"
         => LET i == last'.arg.index
                c == notebookContent
            IN IF i = 0
               THEN UNCHANGED progVars
               ELSE notebookContent' =
                      [k \in 1..Len(c) |->
                         IF k = i THEN c[i + 1] ELSE IF k = i + 1 THEN c[i] ELSE c[k]]
      /\ last'.op = "moveDown"
         => LET i == last'.arg.index
                c == notebookContent
            IN IF i = Len(c) - 1
               THEN UNCHANGED progVars
               ELSE notebookContent' =
                      [k \in 1..Len(c) |->
                         IF k = i + 1 THEN c[i + 2]
                         ELSE IF k = i + 2 THEN c[i + 1]
                         ELSE c[k]]
    ]_vars

\* the middle cell of three has been moved up past a different cell
C9_Witness ==
  /\ last.op = "moveUp"
  /\ last.arg.index = 1
  /\ Len(notebookContent) = 3
  /\ notebookContent[1] # notebookContent[2]

\* C10: when a notebook that this client has saved is opened again, the cell
\* list it gets equals the cell list that was in memory when that save was
\* made.
C10_RoundTrip ==
  ( /\ last.op = "openDone"
    /\ last.arg.ok
    /\ savedMem[last.arg.name].exists )
    => notebookContent = savedMem[last.arg.name].cells

\* C11: at most one live real-time connection exists at any time -- over any
\* sequence of kernel starts and stops, closes and reconnect timers the client
\* never holds two open WebSockets at once.
C11_AtMostOneOpenConnection == Cardinality(OpenSockets) <= 1

\* C18: a close schedules a reconnect only in the raw-WebSocket variant and
\* only if the kernel was last known running -- when a WebSocket closes after
\* the kernel has been stopped (kernelStatus is 'idle'), no reconnect timer is
\* set.
C18_ReconnectOnlyWhileRunning ==
  [][(last'.op = "wsClose" /\ kernelStatus = "idle")
       => reconnectTimers' = reconnectTimers]_vars

\* C12: malformed inbound payloads are silently ignored -- an execution_result,
\* add_cell, delete_cell, alter_cell_content, swap_cell_type or move_cell whose
\* index field is not a number, whose content is not a string or whose type
\* value is not an allowed one changes neither the cell list nor the executing
\* set nor the editing set.
C12_MalformedIgnored ==
  [][(\/ /\ last'.op \in {"execution_result", "add_cell", "delete_cell",
                          "alter_cell_content", "swap_cell_type", "move_cell"}
         /\ ~IsNumber(last'.arg.cell_index)
      \/ last'.op = "move_cell" /\ ~IsNumber(last'.arg.new_index)
      \/ last'.op = "alter_cell_content" /\ last'.arg.content.t # "string"
      \/ /\ last'.op \in {"swap_cell_type"}
         /\ last'.arg.new_type \notin {"code", "markdown"}
      \/ /\ last'.op \in {"add_cell"}
         /\ last'.arg.cell_type \notin {"code", "markdown", ""})
     => UNCHANGED <<notebookContent, executingCells, editingMarkdownCells>>]_vars

\* C13: in every reachable state every cell of the cell list carries exactly
\* one type tag, and the tag is 'code' or 'markdown'.
C13_EveryCellTagged ==
  \A i \in 1..Len(notebookContent) :
    /\ IsObject(notebookContent[i])
    /\ "cell_type" \in DOMAIN notebookContent[i]
    /\ notebookContent[i].cell_type \in {"code", "markdown"}

\* C14: updateCell reached through alter_cell_content or swap_cell_type merges
\* the patch into the cell at a valid index and leaves every other cell
\* unchanged; with an index out of range it leaves the cell list unchanged.
C14_UpdateCellOutOfRangeNoOp ==
  [][(/\ last'.op \in {"alter_cell_content", "swap_cell_type"}
      /\ IsNumber(last'.arg.cell_index)
      /\ last'.op = "alter_cell_content" => last'.arg.content.t = "string"
      /\ last'.op = "swap_cell_type" => last'.arg.new_type \in {"code", "markdown"})
     => LET i == last'.arg.cell_index.v
            patch == IF last'.op = "alter_cell_content"
                     THEN [source |-> <<last'.arg.content.v>>]
                     ELSE [cell_type |-> last'.arg.new_type]
        IN IF i \in 0..(Len(notebookContent) - 1)
           THEN /\ Len(notebookContent') = Len(notebookContent)
                /\ \A j \in 1..Len(notebookContent) :
                     j # i + 1 => notebookContent'[j] = notebookContent[j]
                /\ IsObject(notebookContent[i + 1])
                     => notebookContent'[i + 1] = patch @@ notebookContent[i + 1]
           ELSE notebookContent' = notebookContent]_vars

\* C15: a manual save issues the PUT at once, and when it settles a success
\* notification is shown if it succeeded and an error notification if it
\* failed; an autosave shows nothing on success and an error on failure.
C15_ManualSaveNotifies ==
  [][/\ last'.op = "saveClick"
          => Len(http') = 1 /\ http'[1].kind = "PUT" /\ http'[1] \in pending'
     /\ \A req \in pending :
          (req.kind = "PUT" /\ req \notin pending' /\ mounted)
            => IF ~last'.arg.ok THEN alert'.severity = "error"
               ELSE IF req.trigger = "click" THEN alert'.severity = "success"
               ELSE alert' = alert]_vars

\* C16: autosave is re-enabled once an execution settles -- the completed or
\* error execution_result of an executed cell leaves autosave enabled, and
\* autosave never stays disabled forever after an execution was started.
C16_AutosaveReenabled ==
  /\ [][(last'.op = "execution_result"
          /\ last'.arg.status \in {"completed", "error"}
          /\ IsNumber(last'.arg.cell_index)) => autoSaveEnabled']_vars
  /\ [](~autoSaveEnabled => <>autoSaveEnabled)

\* C17: the set of executing cells and the set of markdown cells being edited
\* are emptied when the real-time connection reconnects.
C17_SetsResetOnReconnect ==
  [][last'.op = "connect"
       => executingCells' = {} /\ editingMarkdownCells' = {}]_vars

\* C19: on unmount the connection is closed and its reference set to null and
\* a pending autosave timer is cancelled, so that after unmount no socket
\* callback runs, no autosave timer is pending and no save is issued.
C19_Teardown ==
  /\ [](~mounted => /\ socketRef = FALSE
                    /\ socketState \notin {"connecting", "connected"}
                    /\ autoSaveTimeoutRef = NoTimer)
  /\ [][~mounted => (http' = <<>> /\ last'.op # "connect")]_vars

\* C20: a completion request never hangs -- every completion call that was
\* made eventually returns suggestions or 'no suggestions' (null).
C20_CompletionReturns ==
  \A i \in 1..MaxCompletions :
    [](  (i <= Len(completionRequests) /\ completionRequests[i].returned = "pending")
      => <>(i <= Len(completionRequests)
            /\ completionRequests[i].returned # "pending"))

\* C21: the name sent by createNotebook is the trimmed typed name if that ends
\* with '.py' and the trimmed name with '.py' appended otherwise, so it always
\* ends with '.py' and normalizing it again changes nothing; an empty or
\* whitespace-only name gives a warning and no request.
C21_NameNormalized ==
  [][last'.op = "createNotebook"
       => LET trimmed == Trim(Spelling[last'.arg.newNotebookName])
          IN IF trimmed = <<>>
             THEN /\ http' = <<>>
                  /\ pending' = pending
                  /\ alert' = Alert("Please enter a notebook name", "warning")
             ELSE /\ Len(http') = 1
                  /\ http'[1].kind = "POST"
                  /\ EndsWithPy(Spelling[http'[1].name])
                  /\ EndsWithPy(trimmed) => Spelling[http'[1].name] = trimmed
                  /\ ~EndsWithPy(trimmed)
                       => Spelling[http'[1].name] = trimmed \o <<".", "p", "y">>
                  /\ FinalName(http'[1].name) = http'[1].name]_vars

\* a name typed with blanks around it and no extension was sent as 'b.py'
C21_Witness ==
  /\ last = Op("createNotebook", [newNotebookName |-> " b "])
  /\ http = <<[kind |-> "POST", name |-> "b.py"]>>

\* C22: a failed request degrades to a notification and nothing else -- when
\* the create, delete, open or save of a notebook gets a non-success status,
\* an error notification is shown, no further request is issued, and the
\* notebooks list, the current notebook and the cell list are unchanged.
C22_FailureIsNotifiedNoOp ==
  [][(/\ last'.op \in {"createNotebookDone", "deleteNotebookDone", "openDone",
                        "saveDone"}
      /\ ~last'.arg.ok)
     => /\ alert'.severity = "error"
        /\ http' = <<>>
        /\ pending' \subseteq pending
        /\ Cardinality(pending \ pending') = 1
        /\ UNCHANGED <<notebooks, currentNotebook, notebookContent>>]_vars

\* the delete of the open notebook has failed
C22_Witness ==
  /\ last = Op("deleteNotebookDone", [name |-> "a.py", ok |-> FALSE])
  /\ currentNotebook = "a.py"
  /\ alert = Alert("Failed to delete notebook", "error")

\* C23: in the draft where auto-save is disabled a save is issued only by the
\* user's save action -- no cell addition, update, deletion, move,
\* markdown-edit toggle or execution result issues a request or sets a timer
\* that would.
C23_DraftSavesOnlyOnClick ==
  [][/\ http' # <<>> => last'.op = "saveNotebook"
     /\ autoSaveTimeoutRef' = NoTimer]_vars

\* the user has left the edit mode of a markdown cell of an open notebook and
\* nothing was sent
C23_Witness ==
  /\ last = Op("toggleMarkdownEdit", [index |-> 1])
  /\ 1 \notin editingMarkdownCells
  /\ currentNotebook = "a.py"
  /\ http = <<>>

C24_WitnessHttp ==
  /\ last = Op("executeHttpDone", [index |-> 0, ok |-> TRUE, outputs |-> <<"o1">>])
  /\ notebookContent[1].outputs = <<"o1">>

\* C25: a read request that arrives after a local edit or a server-pushed
\* mutation is answered from the cell list as it is now: the input read with
\* the joined source of the cell, the output read with its outputs, the list
\* request with one entry for every cell.
C25_ReadsAnswerCurrentState ==
  [][(/\ last.op \in {"addCell", "updateCell", "deleteCell", "moveUp", "moveDown",
                      "execution_result", "add_cell", "delete_cell",
                      "alter_cell_content", "swap_cell_type", "move_cell"}
      /\ last'.op \in {"read_cell_input_request", "read_cell_output_request"}
      /\ ReadGuard(last'.arg)
      /\ last'.arg.cell_index.v \in 0..(Len(notebookContent) - 1)
      /\ IsObject(notebookContent[last'.arg.cell_index.v + 1])
      /\ DOMAIN notebookContent[last'.arg.cell_index.v + 1]
           = {"cell_type", "source", "outputs"})
       => LET cell == notebookContent[last'.arg.cell_index.v + 1]
          IN /\ Len(emitted') = 1
             /\ emitted'[1].request_id = last'.arg.request_id
             /\ last'.op = "read_cell_input_request"
                  => emitted'[1].content = Join(cell.source)
             /\ last'.op = "read_cell_output_request"
                  => emitted'[1].outputs = cell.outputs]_vars
     /\ [][(/\ last'.op = "list_all_cells_request"
             /\ last'.arg.request_id # ""
             /\ \A k \in 1..Len(notebookContent) : IsObject(notebookContent[k]))
           => /\ Len(emitted') = 1
              /\ Len(emitted'[1].cells) = Len(notebookContent)
              /\ \A k \in 1..Len(notebookContent) :
                   emitted'[1].cells[k] = ListEntry(notebookContent[k], k - 1)]_vars

\* C26: an execution_result with status 'running' for cell index i puts i in
\* the executing set and clears the outputs the cell at i had before, so that
\* the cell shows nothing but the chunk the event itself may carry.
C26_RunningClearsOutputs ==
  [][(/\ last'.op = "execution_result"
      /\ last'.arg.status = "running"
      /\ IsNumber(last'.arg.cell_index)
      /\ last'.arg.cell_index.v \in 0..(Len(notebookContent) - 1)
      /\ IsObject(notebookContent[last'.arg.cell_index.v + 1]))
       => /\ last'.arg.cell_index.v \in executingCells'
          /\ notebookContent'[last'.arg.cell_index.v + 1].outputs =
               (IF last'.arg.output # NoOutput THEN <<last'.arg.output>>
                ELSE <<>>)]_vars

\* C27: an execution_result with status 'completed' or 'error' for cell index
\* i takes i out of the executing set and leaves every other index in it; a
\* status that carries no output leaves the cell list as it was.
C27_SettledClearsOnlyThatIndex ==
  [][(/\ last'.op = "execution_result"
      /\ last'.arg.status \in {"completed", "error"}
      /\ IsNumber(last'.arg.cell_index))
       => /\ executingCells' = executingCells \ {last'.arg.cell_index.v}
          /\ last'.arg.output = NoOutput => notebookContent' = notebookContent]_vars

\* cell 0 has settled while cell 1 is still executing
C27_Witness ==
  /\ last.op = "execution_result"
  /\ last.arg.status = "completed"
  /\ last.arg.cell_index = Num(0)
  /\ last.arg.output = NoOutput
  /\ executingCells = {1}
  /\ execInFlight = {1}

\* C28: an add_cell event with a numeric index k, 0 <= k <= length, inserts
\* one cell with the given type (code when none is given), the given content
\* as its source and no outputs at position k: the list is one longer, the
\* cells before k stay where they are and the cells from k on move one down.
C28_AddCellInsertsAtIndex ==
  [][(/\ last'.op = "add_cell"
      /\ IsNumber(last'.arg.cell_index)
      /\ last'.arg.cell_index.v \in 0..Len(notebookContent))
       => LET k == last'.arg.cell_index.v
          IN /\ Len(notebookContent') = Len(notebookContent) + 1
             /\ notebookContent'[k + 1] =
                  [cell_type |-> IF last'.arg.cell_type = "" THEN "code"
                                 ELSE last'.arg.cell_type,
                   source |-> <<last'.arg.content>>, outputs |-> <<>>]
             /\ \A j \in 1..Len(notebookContent) :
                  IsObject(notebookContent[j]) =>
                    notebookContent'[IF j <= k THEN j ELSE j + 1] = notebookContent[j]]_vars

\* a markdown cell with content has been put between the two cells
C28_Witness ==
  /\ last.op = "add_cell"
  /\ last.arg.cell_index = Num(1)
  /\ notebookContent =
       <<cellA, [cell_type |-> "markdown", source |-> << <<"x">> >>, outputs |-> <<>>],
         cellB>>

\* C29: a delete_cell event and the user's deleteCell with a valid index k
\* take the cell at k out of the list and keep all other cells in their
\* order; with an index that addresses no cell the list stays as it is.
C29_DeleteRemovesExactlyOne ==
  [][(\/ last'.op = "delete_cell" /\ IsNumber(last'.arg.cell_index)
      \/ last'.op = "deleteCell")
       => LET k == IF last'.op = "delete_cell" THEN last'.arg.cell_index.v
                   ELSE last'.arg.index
          IN IF k \in 0..(Len(notebookContent) - 1) /\ notebookContent[k + 1] # Hole
             THEN /\ Len(notebookContent') = Len(notebookContent) - 1
                  /\ \A j \in 1..Len(notebookContent) :
                       j # k + 1 =>
                         notebookContent'[IF j <= k THEN j ELSE j - 1]
                           = notebookContent[j]
             ELSE notebookContent' = notebookContent]_vars

\* C30: a swap_cell_type event changes the type tag of the cell at its index
\* and nothing else of the list; with the new type markdown the index leaves
\* the set of markdown cells being edited, with the new type code that set
\* stays as it is.
C30_SwapChangesOnlyType ==
  [][(/\ last'.op = "swap_cell_type"
      /\ IsNumber(last'.arg.cell_index)
      /\ last'.arg.new_type \in {"code", "markdown"}
      /\ last'.arg.cell_index.v \in 0..(Len(notebookContent) - 1)
      /\ IsObject(notebookContent[last'.arg.cell_index.v + 1]))
       => LET k == last'.arg.cell_index.v
          IN /\ Len(notebookContent') = Len(notebookContent)
             /\ notebookContent'[k + 1] =
                  [cell_type |-> last'.arg.new_type] @@ notebookContent[k + 1]
             /\ \A j \in 1..Len(notebookContent) :
                  (j # k + 1 /\ IsObject(notebookContent[j]))
                    => notebookContent'[j] = notebookContent[j]
             /\ editingMarkdownCells' =
                  (IF last'.arg.new_type = "markdown"
                   THEN editingMarkdownCells \ {k} ELSE editingMarkdownCells)]_vars

\* the code cell became markdown, with its source, while cell 1 is being edited
C30_Witness ==
  /\ last.op = "swap_cell_type"
  /\ last.arg.cell_index = Num(0)
  /\ last.arg.new_type = "markdown"
  /\ notebookContent[1] = [cell_type |-> "markdown", source |-> << <<"x">> >>,
                            outputs |-> <<>>]
  /\ editingMarkdownCells = {1}

\* C31: the connection events drive the kernel status: 'connect' sets it to
\* running and shows an information, 'disconnect' clears socketRef, sets it to
\* idle and shows a warning, 'connect_error' sets it to error and shows an
\* error; the status is always one of idle, running, error.
C31_ConnectionDrivesStatus ==
  /\ [](kernelStatus \in {"idle", "running", "error"})
  /\ [][/\ (last'.op = "connect" /\ mounted)
            => /\ kernelStatus' = "running"
               /\ alert' = [severity |-> "info",
                            message |-> "Connected to global kernel"]
        /\ last'.op = "disconnect"
            => /\ ~socketRef'
               /\ kernelStatus' = "idle"
               /\ alert' = [severity |-> "warning",
                            message |-> "Disconnected from server"]
        /\ (last'.op = "connect_error" /\ mounted)
            => /\ kernelStatus' = "error"
               /\ alert' = [severity |-> "error",
                            message |-> "Socket.IO connection error"]]_vars

\* a reconnection attempt has failed after the connection was lost
C31_Witness ==
  /\ last = Op("connect_error", NoArg)
  /\ kernelStatus = "error"
  /\ ~socketRef
  /\ alert.severity = "error"

\* C32: the events of the real-time channel are applied in the order they
\* arrive: each server-pushed mutation is applied to the cell list the event
\* before it left, so that e1 then e2 gives e2 applied to the result of e1.
C32_EventsAppliedInArrivalOrder ==
  [][LET e == last'.arg
         prev == notebookContent
     IN /\ (last'.op = "add_cell" /\ IsNumber(e.cell_index))
            => notebookContent' =
                 AddCellMessageContent(prev, e.cell_index.v, e.cell_type, e.content)
        /\ (last'.op = "delete_cell" /\ IsNumber(e.cell_index))
            => notebookContent' = FilterIndex(prev, e.cell_index.v)
        /\ (last'.op = "move_cell" /\ IsNumber(e.cell_index) /\ IsNumber(e.new_index))
            => notebookContent' = MoveCellContent(prev, e.cell_index.v, e.new_index.v)
        /\ (last'.op = "alter_cell_content" /\ IsNumber(e.cell_index)
              /\ e.content.t = "string")
            => notebookContent' =
                 UpdateCellContent(prev, e.cell_index.v, [source |-> <<e.content.v>>])
        /\ (last'.op = "swap_cell_type" /\ IsNumber(e.cell_index))
            => notebookContent' =
                 UpdateCellContent(prev, e.cell_index.v, [cell_type |-> e.new_type])]_vars

\* add_cell of a markdown cell at 1, then delete_cell 0: the new cell is first
C32_Witness ==
  /\ last = Op("delete_cell", [cell_index |-> Num(0)])
  /\ notebookContent =
       <<[cell_type |-> "markdown", source |-> << <<"x">> >>, outputs |-> <<>>],
         cellB>>
  /\ notebookContentRef = notebookContent

\* C33: a user's updateCell(i, patch) that is processed after server-pushed
\* deletions, insertions and moves is merged into the cell that is at
\* position i at that moment: it is not rejected, not moved to another
\* position, and every other cell stays as it is.
C33_UpdateHitsPositionNow ==
  [][(last'.op = "updateCell" /\ IsObject(notebookContent[last'.arg.index + 1]))
       => LET i == last'.arg.index
          IN /\ Len(notebookContent') = Len(notebookContent)
             /\ notebookContent'[i + 1] = last'.arg.patch @@ notebookContent[i + 1]
             /\ \A j \in 1..Len(notebookContent) :
                  (j # i + 1 /\ IsObject(notebookContent[j]))
                    => notebookContent'[j] = notebookContent[j]]_vars

\* the server has moved the code cell behind the markdown cell, and the
\* user's edit at position 1 lands on the code cell there
C33_Witness ==
  /\ last.op = "updateCell"
  /\ last.arg.index = 1
  /\ notebookContent = <<cellB, cellA>>

\* C34: once a notebook has been deleted on the server no save request (PUT)
\* is issued under its name, also when an autosave timer for it was pending
\* when the deletion completed: every PUT names a notebook the server has.
C34_NoSaveAfterDelete ==
  [][\A k \in 1..Len(http') :
       http'[k].kind = "PUT" => store[http'[k].name].exists]_vars

\* C36: in every reachable state the current notebook is null or a name of
\* the notebooks list, also when an open and a delete request are in flight
\* together and settle in any order.
C36_CurrentNotebookIsListed ==
  currentNotebook # Null => \E k \in 1..Len(notebooks) : notebooks[k] = currentNotebook

\* C35: a save request for the notebook name N carries a cell list that was
\* in memory while N was the open notebook: when another notebook has been
\* opened while an autosave timer was pending, no PUT under the previous name
\* carries the cells of the notebook that is open now.
C35_SavePersistsOwnCells ==
  [][\A k \in 1..Len(http') :
       (http'[k].kind = "PUT" /\ currentNotebook # Null)
         => http'[k].name = currentNotebook]_vars

\* C37: in every reachable state every element of the cell list is a
\* well-formed cell, with a type tag and a source, and the list has no holes
\* and no undefined entries, whatever indices the events and the user's
\* operations were addressed to.
C37_CellsWellFormed ==
  \A k \in 1..Len(notebookContent) :
    /\ IsObject(notebookContent[k])
    /\ {"cell_type", "source"} \subseteq DOMAIN notebookContent[k]

\* C38: the operations that reorder or resize the cell list (addCell,
\* deleteCell, moveUp, moveDown and the add_cell, delete_cell, move_cell
\* events) leave the set of executing indices and the set of markdown indices
\* being edited as they are: the flags stay with the positions.
C38_ListOpsKeepFlags ==
  [][last'.op \in {"addCell", "deleteCell", "moveUp", "moveDown", "add_cell",
                   "delete_cell", "move_cell"}
       => UNCHANGED <<executingCells, editingMarkdownCells>>]_vars

\* the markdown cell that was being edited at position 1 has been moved up;
\* the flags are still at position 1, where the code cell now is
C38_Witness ==
  /\ last = Op("moveUp", [index |-> 1])
  /\ notebookContent = <<cellB, cellA>>
  /\ editingMarkdownCells = {1}
  /\ executingCells = {1}

\* C39: a resetKernel that succeeds sets the kernel status to running and
\* empties the executing set; one that fails sets the status to error and
\* leaves the executing set; in both cases the cell list stays and no
\* execution request is cancelled or sent again.
C39_ResetKernelOutcome ==
  [][last'.op = "resetKernelDone"
       => /\ IF last'.arg.ok
             THEN kernelStatus' = "running" /\ executingCells' = {}
             ELSE kernelStatus' = "error" /\ executingCells' = executingCells
          /\ notebookContent' = notebookContent
          /\ execInFlight' = execInFlight
          /\ emitted' = <<>> /\ http' = <<>>]_vars

\* the reset failed while cell 0 was executing: it still shows as executing
C39_Witness ==
  /\ last = Op("resetKernelDone", [ok |-> FALSE])
  /\ kernelStatus = "error"
  /\ executingCells = {0}
  /\ execInFlight = {0}

\* C40: a file_completion_response settles only the request whose request_id
\* it carries and leaves every other request as it was; a request that has
\* returned never returns anything else; and a request that was sent and has
\* returned, or whose timer has run out, has no response listener registered
C40_ResponsesMatchedByRequestId ==
  [][ /\ last'.op = "file_completion_response"
        => \A j \in 1..Len(completionRequests) :
             j # last'.arg.request_id => completionRequests'[j] = completionRequests[j]
      /\ \A j \in 1..Len(completionRequests) :
           completionRequests[j].returned # "pending"
             => completionRequests'[j].returned = completionRequests[j].returned
      /\ \A j \in 1..Len(completionRequests') :
           (completionRequests'[j].returned # "pending" \/ ~completionRequests'[j].timer)
             => ~completionRequests'[j].responseListener
    ]_vars

\* two requests were pending together and the response for the second has
\* settled it, while the first still waits with its listener registered
C40_Witness ==
  /\ last.op = "file_completion_response"
  /\ last.arg.request_id = 2
  /\ Len(completionRequests) = 2
  /\ completionRequests[2].returned = "suggestions"
  /\ ~completionRequests[2].responseListener
  /\ completionRequests[1].returned = "pending"
  /\ completionRequests[1].responseListener

====
